---- MODULE Spec2Model ----
(***************************************************************************)
(* Typed argument codec of pchain-client-rust (src/utils/parser.rs).       *)
(*                                                                         *)
(* A text (a Rust String / &str) is a sequence of one-character strings.   *)
(* A buffer (Vec<u8>) is a sequence of numbers in 0..255.  A mathematical  *)
(* integer is a record [neg, mag] whose magnitude is the sequence of its   *)
(* decimal digits, most significant first, so that 64 and 128 bit values   *)
(* are computed exactly.                                                   *)
(***************************************************************************)
EXTENDS Integers, Sequences, FiniteSets, TLC

\* pc         where the call stands
\* type_name  the data_type argument of the call
\* value_text the value argument of serialize_call_arguments
\* buffer     the vec argument of call_result_to_data_type
\* encoded    what serialize_call_arguments returned
\* rendered   what call_result_to_data_type returned
VARIABLES pc, type_name, value_text, buffer, encoded, rendered, json_text, call_arguments,
          frames, dt_no_space_of, json_val_of,
          client, requests, outcome

\* the codec called once
codec == <<pc, type_name, value_text, buffer, encoded, rendered, json_text, call_arguments>>

\* the frames of concurrent callers of the codec and the locals of their calls
callers == <<frames, dt_no_space_of, json_val_of>>

\* a client, the requests of its last call on the transport, and what the call gave
session == <<client, requests, outcome>>

vars == <<codec, callers, session>>

-----------------------------------------------------------------------------
(* Characters *)

DigitChars == <<"0", "1", "2", "3", "4", "5", "6", "7", "8", "9">>

IsDigit(c) == \E d \in 1..10 : DigitChars[d] = c

DigitVal(c) == CHOOSE d \in 0..9 : DigitChars[d + 1] = c

DigitChar(d) == DigitChars[d + 1]

\* the printable ASCII characters, code points 32..126 in order (the grave
\* accent, code point 96, is written U+60)
Ascii ==
  <<" ", "!", "\"", "#", "$", "%", "&", "'", "(", ")", "*", "+",
    ",", "-", ".", "/", "0", "1", "2", "3", "4", "5", "6", "7",
    "8", "9", ":", ";", "<", "=", ">", "?", "@", "A", "B", "C",
    "D", "E", "F", "G", "H", "I", "J", "K", "L", "M", "N", "O",
    "P", "Q", "R", "S", "T", "U", "V", "W", "X", "Y", "Z", "[",
    "\\", "]", "^", "_", "U+60", "a", "b", "c", "d", "e", "f", "g",
    "h", "i", "j", "k", "l", "m", "n", "o", "p", "q", "r", "s",
    "t", "u", "v", "w", "x", "y", "z", "{", "|", "}", "~">>

HexDigits == <<"0", "1", "2", "3", "4", "5", "6", "7", "8", "9", "a", "b", "c", "d", "e", "f">>

RECURSIVE HexText(_)
HexText(x) ==
    IF x < 16 THEN HexDigits[x + 1] ELSE HexText(x \div 16) \o HexDigits[(x % 16) + 1]

\* the character of a code point; a character outside ASCII is written U+<hex>
CharOf(cp) ==
    CASE cp \in 32..126 -> Ascii[cp - 31]
      [] cp = 9  -> "\t"
      [] cp = 10 -> "\n"
      [] cp = 12 -> "\f"
      [] cp = 13 -> "\r"
      [] OTHER -> "U+" \o HexText(cp)

\* code points outside ASCII that texts of the model may hold
ModelledCodePoints == (0..31) \cup (127..255) \cup {8364, 128512}

CodeOf(c) ==
    IF \E k \in 1..95 : Ascii[k] = c
    THEN 31 + (CHOOSE k \in 1..95 : Ascii[k] = c)
    ELSE CHOOSE cp \in ModelledCodePoints : CharOf(cp) = c

\* the whitespace serde_json skips between tokens
JsonWhitespace == {" ", "\n", "\t", "\r"}

-----------------------------------------------------------------------------
(* Arithmetic on decimal magnitudes (sequences of digits 0..9) *)

RECURSIVE StripZeros(_)
StripZeros(m) ==
    IF Len(m) > 1 /\ m[1] = 0 THEN StripZeros(Tail(m)) ELSE m

\* -1, 0, 1 as a is less than, equal to, greater than b
RECURSIVE LexCmp(_, _, _)
LexCmp(a, b, i) ==
    IF i > Len(a) THEN 0
    ELSE IF a[i] < b[i] THEN -1
    ELSE IF a[i] > b[i] THEN 1
    ELSE LexCmp(a, b, i + 1)

MagCmp(a, b) ==
    IF Len(a) < Len(b) THEN -1
    ELSE IF Len(a) > Len(b) THEN 1
    ELSE LexCmp(a, b, 1)

MagLeq(a, b) == MagCmp(a, b) <= 0

\* a * m + c, for small m and c
RECURSIVE MulAddFrom(_, _, _, _, _)
MulAddFrom(a, m, carry, i, acc) ==
    IF i = 0
    THEN IF carry = 0 THEN acc
         ELSE MulAddFrom(a, m, carry \div 10, 0, <<carry % 10>> \o acc)
    ELSE LET x == a[i] * m + carry
         IN  MulAddFrom(a, m, x \div 10, i - 1, <<x % 10>> \o acc)

MagMulAdd(a, m, c) == StripZeros(MulAddFrom(a, m, c, Len(a), <<>>))

\* quotient and remainder of a by a small divisor d
RECURSIVE DivModFrom(_, _, _, _, _)
DivModFrom(a, d, i, rem, q) ==
    IF i > Len(a) THEN [q |-> StripZeros(q), r |-> rem]
    ELSE LET x == rem * 10 + a[i]
         IN  DivModFrom(a, d, i + 1, x % d, Append(q, x \div d))

MagDivMod(a, d) == DivModFrom(a, d, 1, 0, <<>>)

IsZeroMag(m) == m = <<0>>

-----------------------------------------------------------------------------
(* Rust types of the dispatch tables *)

IntT(s, w)  == [k |-> "int",    signed |-> s,     w |-> w, of |-> <<>>,  n |-> 0]
BoolT       == [k |-> "bool",   signed |-> FALSE, w |-> 0, of |-> <<>>,  n |-> 0]
StringT     == [k |-> "String", signed |-> FALSE, w |-> 0, of |-> <<>>,  n |-> 0]
VecT(t)     == [k |-> "Vec",    signed |-> FALSE, w |-> 0, of |-> <<t>>, n |-> 0]
OptionT(t)  == [k |-> "Option", signed |-> FALSE, w |-> 0, of |-> <<t>>, n |-> 0]
\* serde_big_array::Array<u8, n>, which dereferences to [u8; n]
ArrayT(len) == [k |-> "Array",  signed |-> FALSE, w |-> 0, of |-> <<IntT(FALSE, 8)>>, n |-> len]
\* [u8; n]
SliceT(len) == [k |-> "Slice",  signed |-> FALSE, w |-> 0, of |-> <<IntT(FALSE, 8)>>, n |-> len]

Widths == <<8, 16, 32, 64, 128>>

SignedInts   == [i \in 1..5 |-> IntT(TRUE, Widths[i])]
UnsignedInts == [i \in 1..5 |-> IntT(FALSE, Widths[i])]

\* decimal text of a small natural number
RECURSIVE NatText(_)
NatText(x) ==
    IF x < 10 THEN <<DigitChar(x)>>
    ELSE Append(NatText(x \div 10), DigitChar(x % 10))

\* stringify!($t): the tokens of the type, with the space rustc puts after a comma
RECURSIVE Stringify(_)
Stringify(t) ==
    CASE t.k = "int"    -> <<IF t.signed THEN "i" ELSE "u">> \o NatText(t.w)
      [] t.k = "bool"   -> <<"b", "o", "o", "l">>
      [] t.k = "String" -> <<"S", "t", "r", "i", "n", "g">>
      [] t.k = "Vec"    -> <<"V", "e", "c", "<">> \o Stringify(t.of[1]) \o <<">">>
      [] t.k = "Option" -> <<"O", "p", "t", "i", "o", "n", "<">>
                              \o Stringify(t.of[1]) \o <<">">>
      [] t.k = "Array"  -> <<"A", "r", "r", "a", "y", "<">> \o Stringify(t.of[1])
                              \o <<",", " ">> \o NatText(t.n) \o <<">">>

\* concat!("[u8;", stringify!($s), "]")
SliceName(len) == <<"[", "u", "8", ";">> \o NatText(len) \o <<"]">>

-----------------------------------------------------------------------------
(* str::replace and Regex::is_match *)

\* s.replace(from, to) for a one-character pattern
RECURSIVE Replace(_, _, _)
Replace(s, from, to) ==
    IF s = <<>> THEN <<>>
    ELSE (IF Head(s) = from THEN to ELSE <<Head(s)>>) \o Replace(Tail(s), from, to)

StartsWithAt(s, i, p) ==
    /\ i + Len(p) - 1 <= Len(s)
    /\ \A j \in 1..Len(p) : s[i + j - 1] = p[j]

\* the regular expression ^\[[ui](8|16|32|64|128);(32|64)]$
ReIsMatch(s) ==
    /\ Len(s) >= 1 /\ s[1] = "["
    /\ Len(s) >= 2 /\ s[2] \in {"u", "i"}
    /\ \E wi \in 1..Len(Widths) : \E len \in {32, 64} :
          LET wt == NatText(Widths[wi])
              lt == NatText(len)
          IN  /\ StartsWithAt(s, 3, wt)
              /\ StartsWithAt(s, 3 + Len(wt), <<";">>)
              /\ StartsWithAt(s, 4 + Len(wt), lt)
              /\ StartsWithAt(s, 4 + Len(wt) + Len(lt), <<"]">>)
              /\ Len(s) = 4 + Len(wt) + Len(lt)

-----------------------------------------------------------------------------
(* serde_json::from_str::<T>: type-directed parsing of the value text.     *)
(* A parse result is [ok, val, pos, err]; pos is the index of the next     *)
(* unread character, err the leading words of serde_json's message.        *)

POk(v, p) == [ok |-> TRUE,  val |-> v,    pos |-> p, err |-> ""]
PErr(e)   == [ok |-> FALSE, val |-> <<>>, pos |-> 0, err |-> e]

\* the character at i, or "" at the end of the text
Peek(s, i) == IF i <= Len(s) THEN s[i] ELSE ""

RECURSIVE ParseWhitespace(_, _)
ParseWhitespace(s, i) ==
    IF i <= Len(s) /\ s[i] \in JsonWhitespace THEN ParseWhitespace(s, i + 1) ELSE i

RECURSIVE ScanDigits(_, _)
ScanDigits(s, i) ==
    IF i <= Len(s) /\ IsDigit(s[i]) THEN ScanDigits(s, i + 1) ELSE i

DigitsMag(s, from, to) == StripZeros([j \in 1..(to - from) |-> DigitVal(s[from + j - 1])])

\* parse_ident: the characters of ident must follow at i
RECURSIVE ParseIdent(_, _, _, _)
ParseIdent(s, i, ident, j) ==
    IF j > Len(ident) THEN POk(<<>>, i)
    ELSE IF i > Len(s) THEN PErr("EOF while parsing a value")
    ELSE IF s[i] # ident[j] THEN PErr("expected ident")
    ELSE ParseIdent(s, i + 1, ident, j + 1)

U64Max == <<1, 8, 4, 4, 6, 7, 4, 4, 0, 7, 3, 7, 0, 9, 5, 5, 1, 6, 1, 5>>
I64MinMag == <<9, 2, 2, 3, 3, 7, 2, 0, 3, 6, 8, 5, 4, 7, 7, 5, 8, 0, 8>>

\* parse_integer / parse_number: the literal at i (after an optional minus)
\* becomes U64, I64 or, with a fraction, an exponent, an overflow or "-0", F64
ParseInteger(s, i, positive) ==
    LET e == ScanDigits(s, i)
        mag == DigitsMag(s, i, e)
        \* parse_decimal / parse_exponent need a digit after '.', 'e' or its sign
        fracEnd == IF Peek(s, e) = "." THEN ScanDigits(s, e + 1) ELSE e
        expAt == IF Peek(s, fracEnd) \in {"e", "E"}
                 THEN (IF Peek(s, fracEnd + 1) \in {"+", "-"} THEN fracEnd + 2 ELSE fracEnd + 1)
                 ELSE fracEnd
        expEnd == IF Peek(s, fracEnd) \in {"e", "E"} THEN ScanDigits(s, expAt) ELSE fracEnd
    IN  IF e = i THEN PErr("invalid number")
        ELSE IF s[i] = "0" /\ e > i + 1 THEN PErr("invalid number")
        ELSE IF Peek(s, e) = "." /\ fracEnd = e + 1 THEN PErr("invalid number")
        ELSE IF Peek(s, fracEnd) \in {"e", "E"} /\ expEnd = expAt THEN PErr("invalid number")
        ELSE IF expEnd > e THEN POk([kind |-> "F64", mag |-> mag], expEnd)
        ELSE IF positive
             THEN (IF MagLeq(mag, U64Max) THEN POk([kind |-> "U64", mag |-> mag], e)
                   ELSE POk([kind |-> "F64", mag |-> mag], e))
             ELSE (IF ~IsZeroMag(mag) /\ MagLeq(mag, I64MinMag)
                   THEN POk([kind |-> "I64", mag |-> mag], e)
                   ELSE POk([kind |-> "F64", mag |-> mag], e))

\* <uN>::MAX, <iN>::MAX and the magnitude of <iN>::MIN
UnsignedMax(w) ==
    CASE w = 8 -> <<2, 5, 5>>
      [] w = 16 -> <<6, 5, 5, 3, 5>>
      [] w = 32 -> <<4, 2, 9, 4, 9, 6, 7, 2, 9, 5>>
      [] w = 64 -> <<1, 8, 4, 4, 6, 7, 4, 4, 0, 7, 3, 7, 0, 9, 5, 5, 1, 6, 1, 5>>
      [] w = 128 -> <<3, 4, 0, 2, 8, 2, 3, 6, 6, 9, 2, 0, 9, 3, 8, 4, 6, 3, 4, 6, 3, 3, 7, 4, 6, 0, 7, 4, 3, 1, 7, 6, 8, 2, 1, 1, 4, 5, 5>>

SignedMax(w) ==
    CASE w = 8 -> <<1, 2, 7>>
      [] w = 16 -> <<3, 2, 7, 6, 7>>
      [] w = 32 -> <<2, 1, 4, 7, 4, 8, 3, 6, 4, 7>>
      [] w = 64 -> <<9, 2, 2, 3, 3, 7, 2, 0, 3, 6, 8, 5, 4, 7, 7, 5, 8, 0, 7>>
      [] w = 128 -> <<1, 7, 0, 1, 4, 1, 1, 8, 3, 4, 6, 0, 4, 6, 9, 2, 3, 1, 7, 3, 1, 6, 8, 7, 3, 0, 3, 7, 1, 5, 8, 8, 4, 1, 0, 5, 7, 2, 7>>

SignedMinMag(w) ==
    CASE w = 8 -> <<1, 2, 8>>
      [] w = 16 -> <<3, 2, 7, 6, 8>>
      [] w = 32 -> <<2, 1, 4, 7, 4, 8, 3, 6, 4, 8>>
      [] w = 64 -> <<9, 2, 2, 3, 3, 7, 2, 0, 3, 6, 8, 5, 4, 7, 7, 5, 8, 0, 8>>
      [] w = 128 -> <<1, 7, 0, 1, 4, 1, 1, 8, 3, 4, 6, 0, 4, 6, 9, 2, 3, 1, 7, 3, 1, 6, 8, 7, 3, 0, 3, 7, 1, 5, 8, 8, 4, 1, 0, 5, 7, 2, 8>>

\* a range test that lets every integer through to the cast
InRangeOfWrapping(t, neg, mag) == TRUE

\* the range test of the integer visitors (visit_u64 / visit_i64) and of
\* str::parse for the 128 bit types
InRangeOf(t, neg, mag) ==
    IF neg
    THEN IsZeroMag(mag) \/ (t.signed /\ MagLeq(mag, SignedMinMag(t.w)))
    ELSE MagLeq(mag, IF t.signed THEN SignedMax(t.w) ELSE UnsignedMax(t.w))

IntVal(neg, mag) == [neg |-> neg /\ ~IsZeroMag(mag), mag |-> mag]

\* the value of a hexadecimal digit, or -1
HexVal(c) ==
    IF IsDigit(c) THEN DigitVal(c)
    ELSE CASE c \in {"a", "A"} -> 10 [] c \in {"b", "B"} -> 11 [] c \in {"c", "C"} -> 12
           [] c \in {"d", "D"} -> 13 [] c \in {"e", "E"} -> 14 [] c \in {"f", "F"} -> 15
           [] OTHER -> -1

\* the end of the run of characters from i on that parse_str copies as they
\* are: the index of the next quote, backslash or control character, or of
\* the end of the text
RunEnd(s, i) ==
    IF \E j \in i..Len(s) : s[j] \in {"\"", "\\"} \/ CodeOf(s[j]) < 32
    THEN CHOOSE j \in i..Len(s) :
            /\ s[j] \in {"\"", "\\"} \/ CodeOf(s[j]) < 32
            /\ \A h \in i..(j - 1) : ~(s[h] \in {"\"", "\\"} \/ CodeOf(s[h]) < 32)
    ELSE Len(s) + 1

\* parse_str without the resolution of escapes: the characters between the
\* quotes as they are written
RECURSIVE ParseStrKeepingEscapes(_, _, _)
ParseStrKeepingEscapes(s, i, acc) ==
    LET c == Peek(s, i)
        e == Peek(s, i + 1)
    IN  IF c = "" THEN PErr("EOF while parsing a string")
        ELSE IF c = "\"" THEN POk(acc, i + 1)
        ELSE IF c = "\\"
        THEN IF e = "" THEN PErr("EOF while parsing a string")
             ELSE ParseStrKeepingEscapes(s, i + 2, acc \o <<c, e>>)
        ELSE ParseStrKeepingEscapes(s, RunEnd(s, i + 1),
                                    acc \o SubSeq(s, i, RunEnd(s, i + 1) - 1))

\* parse_str: the characters after the opening quote up to the closing one,
\* with the escapes resolved (\u is modelled for one non-surrogate unit)
RECURSIVE ParseStr(_, _, _)
ParseStr(s, i, acc) ==
    LET c == Peek(s, i)
        e == Peek(s, i + 1)
        h == [j \in 1..4 |-> HexVal(Peek(s, i + 1 + j))]
    IN  IF c = "" THEN PErr("EOF while parsing a string")
        ELSE IF c = "\"" THEN POk(acc, i + 1)
        ELSE IF c = "\\"
        THEN CASE e = "" -> PErr("EOF while parsing a string")
               [] e \in {"\"", "\\", "/"} -> ParseStr(s, i + 2, Append(acc, e))
               [] e = "b" -> ParseStr(s, i + 2, Append(acc, CharOf(8)))
               [] e = "f" -> ParseStr(s, i + 2, Append(acc, "\f"))
               [] e = "n" -> ParseStr(s, i + 2, Append(acc, "\n"))
               [] e = "r" -> ParseStr(s, i + 2, Append(acc, "\r"))
               [] e = "t" -> ParseStr(s, i + 2, Append(acc, "\t"))
               [] e = "u" -> IF i + 5 > Len(s) THEN PErr("EOF while parsing a string")
                             ELSE IF \E j \in 1..4 : h[j] < 0 THEN PErr("invalid escape")
                             ELSE ParseStr(s, i + 6, Append(acc,
                                     CharOf(h[1] * 4096 + h[2] * 256 + h[3] * 16 + h[4])))
               [] OTHER -> PErr("invalid escape")
        ELSE IF CodeOf(c) < 32 THEN PErr("control character while parsing a string")
        ELSE ParseStr(s, RunEnd(s, i + 1), acc \o SubSeq(s, i, RunEnd(s, i + 1) - 1))

\* de::Error::invalid_type for a token that parsed, the error of the token
\* otherwise
InvalidType(token) == IF token.ok THEN PErr("invalid type") ELSE token

\* peek_invalid_type: what a visitor answers to a token of another kind
PeekInvalidType(s, i) ==
    LET c == Peek(s, i)
    IN  CASE c = "n" -> InvalidType(ParseIdent(s, i + 1, <<"u", "l", "l">>, 1))
          [] c = "t" -> InvalidType(ParseIdent(s, i + 1, <<"r", "u", "e">>, 1))
          [] c = "f" -> InvalidType(ParseIdent(s, i + 1, <<"a", "l", "s", "e">>, 1))
          [] c = "-" \/ IsDigit(c) ->
                InvalidType(ParseInteger(s, IF c = "-" THEN i + 1 ELSE i, c # "-"))
          [] c = "\"" -> InvalidType(ParseStr(s, i + 1, <<>>))
          [] c \in {"[", "{"} -> PErr("invalid type")
          [] OTHER -> PErr("expected value")

\* a visitor that reports an integer outside the type as a number out of
\* range
VisitNumberOutOfRange(t, num) ==
    IF ~num.ok THEN num
    ELSE IF num.val.kind = "F64" THEN PErr("invalid type")
    ELSE IF InRangeOf(t, num.val.kind = "I64", num.val.mag)
         THEN POk(IntVal(num.val.kind = "I64", num.val.mag), num.pos)
         ELSE PErr("number out of range")

\* ParserNumber::visit on the visitor of an integer type of 8 to 64 bits
VisitNumber(t, num) ==
    IF ~num.ok THEN num
    ELSE IF num.val.kind = "F64" THEN PErr("invalid type")
    ELSE IF InRangeOf(t, num.val.kind = "I64", num.val.mag)
         THEN POk(IntVal(num.val.kind = "I64", num.val.mag), num.pos)
         ELSE PErr("invalid value")

\* deserialize_u8 .. deserialize_i64 (deserialize_number)
DeserializeNumber(t, s, i0) ==
    LET i == ParseWhitespace(s, i0)
        c == Peek(s, i)
    IN  IF c = "" THEN PErr("EOF while parsing a value")
        ELSE IF c # "-" /\ ~IsDigit(c) THEN PeekInvalidType(s, i)
        ELSE VisitNumber(t, ParseInteger(s, IF c = "-" THEN i + 1 ELSE i, c # "-"))

\* deserialize_i128 / deserialize_u128 (scan_integer128, then str::parse)
Deserialize128(t, s, i0) ==
    LET i == ParseWhitespace(s, i0)
        c == Peek(s, i)
        neg == c = "-"
        d == IF neg THEN i + 1 ELSE i
        e == ScanDigits(s, d)
        mag == DigitsMag(s, d, e)
    IN  IF c = "" THEN PErr("EOF while parsing a value")
        ELSE IF neg /\ ~t.signed THEN PErr("number out of range")
        ELSE IF e = d THEN PErr("invalid number")
        ELSE IF s[d] = "0" /\ e > d + 1 THEN PErr("invalid number")
        ELSE IF InRangeOf(t, neg, mag) THEN POk(IntVal(neg, mag), e)
        ELSE PErr("number out of range")

DeserializeInt(t, s, i) ==
    IF t.w = 128 THEN Deserialize128(t, s, i) ELSE DeserializeNumber(t, s, i)

\* deserialize_bool
DeserializeBool(s, i0) ==
    LET i == ParseWhitespace(s, i0)
        c == Peek(s, i)
        id == IF c = "t" THEN ParseIdent(s, i + 1, <<"r", "u", "e">>, 1)
              ELSE ParseIdent(s, i + 1, <<"a", "l", "s", "e">>, 1)
    IN  IF c = "" THEN PErr("EOF while parsing a value")
        ELSE IF c \notin {"t", "f"} THEN PeekInvalidType(s, i)
        ELSE IF id.ok THEN POk(c = "t", id.pos) ELSE id

\* a reader of strings that takes text without quotes as it stands
DeserializeStringOrRaw(s, i0) ==
    LET i == ParseWhitespace(s, i0)
    IN  IF Peek(s, i) = "" THEN PErr("EOF while parsing a value")
        ELSE IF Peek(s, i) # "\"" THEN POk(SubSeq(s, i, Len(s)), Len(s) + 1)
        ELSE ParseStr(s, i + 1, <<>>)

\* deserialize_string
DeserializeString(s, i0) ==
    LET i == ParseWhitespace(s, i0)
    IN  IF Peek(s, i) = "" THEN PErr("EOF while parsing a value")
        ELSE IF Peek(s, i) # "\"" THEN PeekInvalidType(s, i)
        ELSE ParseStr(s, i + 1, <<>>)

RECURSIVE Deserialize(_, _, _)
RECURSIVE SeqElements(_, _, _, _, _, _)

\* SeqAccess::next_element: the next element of the list, or the end of the
\* list (more = FALSE) at the closing bracket
NextElement(t, s, i0, first) ==
    LET i == ParseWhitespace(s, i0)
        c == Peek(s, i)
        j == IF c = "," /\ ~first THEN ParseWhitespace(s, i + 1) ELSE i
        el == Deserialize(t, s, j)
    IN  CASE c = "]" -> [POk(<<>>, i) EXCEPT !.err = "end of list"]
          [] c = ""  -> PErr("EOF while parsing a list")
          [] c # "," /\ ~first -> PErr("expected list comma or end")
          [] Peek(s, j) = "]" -> PErr("trailing comma")
          [] Peek(s, j) = ""  -> PErr("EOF while parsing a value")
          [] OTHER -> el

\* the visitor of Vec<T> takes elements until the list ends (limit < 0), the
\* visitor of [u8; N] takes exactly N and fails when the list ends before
SeqElements(t, s, i0, first, acc, limit) ==
    LET el == NextElement(t, s, i0, first)
    IN  CASE limit = Len(acc) -> POk(acc, i0)
          [] ~el.ok -> el
          [] el.err = "end of list" ->
                IF limit < 0 THEN POk(acc, el.pos) ELSE PErr("invalid length")
          [] OTHER -> SeqElements(t, s, el.pos, FALSE, Append(acc, el.val), limit)

\* an end_seq that drops whatever follows the elements the visitor took
EndSeqDroppingRest(s, i0) == POk(<<>>, Len(s) + 1)

\* end_seq: only the closing bracket may follow the elements the visitor took
EndSeq(s, i0) ==
    LET i == ParseWhitespace(s, i0)
        c == Peek(s, i)
    IN  CASE c = "]" -> POk(<<>>, i + 1)
          [] c = ""  -> PErr("EOF while parsing a list")
          [] c = "," -> IF Peek(s, ParseWhitespace(s, i + 1)) = "]"
                        THEN PErr("trailing comma") ELSE PErr("trailing characters")
          [] OTHER   -> PErr("trailing characters")

\* deserialize_seq (Vec<T>) and deserialize_tuple ([u8; N])
DeserializeSeq(t, s, i0, limit) ==
    LET i == ParseWhitespace(s, i0)
        els == SeqElements(t, s, i + 1, TRUE, <<>>, limit)
        end == EndSeq(s, els.pos)
    IN  IF Peek(s, i) = "" THEN PErr("EOF while parsing a value")
        ELSE IF Peek(s, i) # "[" THEN PeekInvalidType(s, i)
        ELSE IF ~els.ok THEN els
        ELSE IF ~end.ok THEN end
        ELSE POk(els.val, end.pos)

\* deserialize_option that takes every value for Some(T)
DeserializeOptionAlwaysSome(t, s, i0) ==
    IF Deserialize(t, s, i0).ok
    THEN POk(<<Deserialize(t, s, i0).val>>, Deserialize(t, s, i0).pos)
    ELSE Deserialize(t, s, i0)

\* deserialize_option: null is None, anything else is Some(T)
DeserializeOption(t, s, i0) ==
    LET i == ParseWhitespace(s, i0)
        id == ParseIdent(s, i + 1, <<"u", "l", "l">>, 1)
        some == Deserialize(t, s, i)
    IN  IF Peek(s, i) = "n"
        THEN (IF id.ok THEN POk(<<>>, id.pos) ELSE id)
        ELSE IF some.ok THEN POk(<<some.val>>, some.pos) ELSE some

\* <T as Deserialize>::deserialize on the serde_json deserializer
Deserialize(t, s, i) ==
    CASE t.k = "int"    -> DeserializeInt(t, s, i)
      [] t.k = "bool"   -> DeserializeBool(s, i)
      [] t.k = "String" -> DeserializeString(s, i)
      [] t.k = "Vec"    -> DeserializeSeq(t.of[1], s, i, -1)
      [] t.k = "Option" -> DeserializeOption(t.of[1], s, i)
      [] t.k = "Array"  -> DeserializeSeq(t.of[1], s, i, t.n)

\* Deserializer::end: only whitespace may follow the value
End(s, r) ==
    IF ~r.ok THEN r
    ELSE IF ParseWhitespace(s, r.pos) <= Len(s) THEN PErr("trailing characters")
    ELSE r

\* serde_json::from_str
FromStr(t, s) == End(s, Deserialize(t, s, 1))

-----------------------------------------------------------------------------
(* borsh: BorshSerialize::try_to_vec *)

\* the n low-order bytes of a magnitude, least significant first
RECURSIVE MagToLeBytes(_, _)
MagToLeBytes(mag, n) ==
    IF n = 0 THEN <<>>
    ELSE LET qr == MagDivMod(mag, 256)
         IN  <<qr.r>> \o MagToLeBytes(qr.q, n - 1)

\* two's complement negation of a little-endian byte string
RECURSIVE NegateFrom(_, _, _)
NegateFrom(b, i, carry) ==
    IF i > Len(b) THEN <<>>
    ELSE LET x == (255 - b[i]) + carry
         IN  <<x % 256>> \o NegateFrom(b, i + 1, x \div 256)

NegateBytes(b) == NegateFrom(b, 1, 1)

\* <int>::to_be_bytes: the same bytes, most significant first
ToBeBytes(v, w) ==
    LET le == IF v.neg THEN NegateBytes(MagToLeBytes(v.mag, w \div 8))
              ELSE MagToLeBytes(v.mag, w \div 8)
    IN  [j \in 1..Len(le) |-> le[Len(le) + 1 - j]]

\* <int>::to_le_bytes
ToLeBytes(v, w) ==
    IF v.neg THEN NegateBytes(MagToLeBytes(v.mag, w \div 8))
    ELSE MagToLeBytes(v.mag, w \div 8)

\* the four bytes of a u32, the most significant first
U32ToBeBytes(x) ==
    <<(x \div 16777216) % 256, (x \div 65536) % 256, (x \div 256) % 256, x % 256>>

\* u32::to_le_bytes of a length
U32ToLeBytes(x) ==
    <<x % 256, (x \div 256) % 256, (x \div 65536) % 256, (x \div 16777216) % 256>>

\* the UTF-8 bytes of one character
Utf8OfCode(cp) ==
    CASE cp < 128   -> <<cp>>
      [] cp < 2048  -> <<192 + (cp \div 64), 128 + (cp % 64)>>
      [] cp < 65536 -> <<224 + (cp \div 4096), 128 + ((cp \div 64) % 64), 128 + (cp % 64)>>
      [] OTHER      -> <<240 + (cp \div 262144), 128 + ((cp \div 4096) % 64),
                         128 + ((cp \div 64) % 64), 128 + (cp % 64)>>

RECURSIVE Concat(_)
Concat(ss) ==
    IF Len(ss) = 0 THEN <<>>
    ELSE IF Len(ss) = 1 THEN ss[1]
    ELSE Concat(SubSeq(ss, 1, Len(ss) \div 2))
           \o Concat(SubSeq(ss, (Len(ss) \div 2) + 1, Len(ss)))

\* str::as_bytes
Utf8Bytes(str) == Concat([j \in 1..Len(str) |-> Utf8OfCode(CodeOf(str[j]))])

\* a serialization with the tags of Option exchanged: 1 for None, 0 for Some
RECURSIVE BorshSerializeTagsExchanged(_, _)
BorshSerializeTagsExchanged(t, v) ==
    CASE t.k = "int"    -> ToLeBytes(v, t.w)
      [] t.k = "bool"   -> <<IF v THEN 1 ELSE 0>>
      [] t.k = "String" -> U32ToLeBytes(Len(Utf8Bytes(v))) \o Utf8Bytes(v)
      [] t.k = "Vec"    -> U32ToLeBytes(Len(v))
                              \o Concat([j \in 1..Len(v) |->
                                           BorshSerializeTagsExchanged(t.of[1], v[j])])
      [] t.k = "Option" -> IF v = <<>> THEN <<1>>
                           ELSE <<0>> \o BorshSerializeTagsExchanged(t.of[1], v[1])
      [] t.k = "Array"  -> Concat([j \in 1..Len(v) |->
                                     BorshSerializeTagsExchanged(t.of[1], v[j])])

\* BorshSerialize::serialize of a value of type t
RECURSIVE BorshSerialize(_, _)
BorshSerialize(t, v) ==
    CASE t.k = "int"    -> ToLeBytes(v, t.w)
      [] t.k = "bool"   -> <<IF v THEN 1 ELSE 0>>
      [] t.k = "String" -> U32ToLeBytes(Len(Utf8Bytes(v))) \o Utf8Bytes(v)
      [] t.k = "Vec"    -> U32ToLeBytes(Len(v))
                              \o Concat([j \in 1..Len(v) |-> BorshSerialize(t.of[1], v[j])])
      [] t.k = "Option" -> IF v = <<>> THEN <<0>>
                           ELSE <<1>> \o BorshSerialize(t.of[1], v[1])
      [] t.k = "Array"  -> Concat([j \in 1..Len(v) |-> BorshSerialize(t.of[1], v[j])])

-----------------------------------------------------------------------------
(* borsh: BorshDeserialize::deserialize, reading from the front of a buffer *)

UnexpectedLength == "Unexpected length of input"

\* the magnitude of a little-endian byte string
RECURSIVE MagOfLeFrom(_, _, _)
MagOfLeFrom(b, i, acc) ==
    IF i = 0 THEN acc ELSE MagOfLeFrom(b, i - 1, MagMulAdd(acc, 256, b[i]))

\* from_le_bytes that reads every type as unsigned
FromLeBytesUnsigned(b, signed) ==
    [neg |-> FALSE, mag |-> MagOfLeFrom(b, Len(b), <<0>>)]

\* <int>::from_le_bytes
FromLeBytes(b, signed) ==
    IF signed /\ b[Len(b)] >= 128
    THEN [neg |-> TRUE,  mag |-> MagOfLeFrom(NegateBytes(b), Len(b), <<0>>)]
    ELSE [neg |-> FALSE, mag |-> MagOfLeFrom(b, Len(b), <<0>>)]

\* u32::from_le_bytes of a length prefix; a prefix of 2^31 or more exceeds
\* every buffer and is held at the largest number of the model
U32OfLeBytes(b) ==
    IF b[4] >= 128 THEN 2147483647
    ELSE b[1] + 256 * b[2] + 65536 * b[3] + 16777216 * b[4]

\* core::str::from_utf8 on b[from..to]: the characters, or an error
\* a decoding that takes every byte for a character: U+FFFD, written ?, in
\* place of the bytes that are no UTF-8
Utf8DecodeLossy(b, i, to, acc) ==
    POk(acc \o [j \in 1..(to - i + 1) |->
                  IF b[i + j - 1] \in 32..126 THEN CharOf(b[i + j - 1]) ELSE "?"], to + 1)

RECURSIVE Utf8Decode(_, _, _, _)
Utf8Decode(b, i, to, acc) ==
    LET x == b[i]
        y == IF i + 1 <= to THEN b[i + 1] ELSE 0
        c1 == i + 1 <= to /\ b[i + 1] \in 128..191
        c2 == i + 2 <= to /\ b[i + 2] \in 128..191
        c3 == i + 3 <= to /\ b[i + 3] \in 128..191
    IN  CASE i > to -> POk(acc, i)
          [] x < 128 -> Utf8Decode(b, i + 1, to, Append(acc, CharOf(x)))
          [] x \in 194..223 /\ c1 ->
                Utf8Decode(b, i + 2, to, Append(acc, CharOf((x - 192) * 64 + (y - 128))))
          [] /\ x \in 224..239 /\ c1 /\ c2
             /\ (x = 224 => y >= 160) /\ (x = 237 => y <= 159) ->
                Utf8Decode(b, i + 3, to, Append(acc,
                    CharOf((x - 224) * 4096 + (y - 128) * 64 + (b[i + 2] - 128))))
          [] /\ x \in 240..244 /\ c1 /\ c2 /\ c3
             /\ (x = 240 => y >= 144) /\ (x = 244 => y <= 143) ->
                Utf8Decode(b, i + 4, to, Append(acc,
                    CharOf((x - 240) * 262144 + (y - 128) * 4096
                           + (b[i + 2] - 128) * 64 + (b[i + 3] - 128))))
          [] OTHER -> PErr("invalid utf-8 sequence")

RECURSIVE BorshDeserialize(_, _, _)
RECURSIVE BorshElements(_, _, _, _, _)

\* a reading of the elements that returns those read when the buffer ends
BorshElementsSoFar(t, b, i, count, acc) ==
    IF Len(acc) = count THEN POk(acc, i)
    ELSE IF ~BorshDeserialize(t, b, i).ok THEN POk(acc, i)
    ELSE BorshElements(t, b, BorshDeserialize(t, b, i).pos, count,
                       Append(acc, BorshDeserialize(t, b, i).val))

\* count elements of type t, one after the other
BorshElements(t, b, i, count, acc) ==
    LET el == BorshDeserialize(t, b, i)
    IN  CASE Len(acc) = count -> POk(acc, i)
          [] ~el.ok -> el
          [] OTHER -> BorshElements(t, b, el.pos, count, Append(acc, el.val))

\* <T as BorshDeserialize>::deserialize of the bytes of b from index i on
BorshDeserialize(t, b, i) ==
    LET avail == Len(b) - i + 1
        len == U32OfLeBytes(SubSeq(b, i, i + 3))
    IN  CASE t.k = "int" ->
                IF avail < t.w \div 8 THEN PErr(UnexpectedLength)
                ELSE POk(FromLeBytes(SubSeq(b, i, i + (t.w \div 8) - 1), t.signed),
                         i + (t.w \div 8))
          [] t.k = "bool" ->
                IF avail < 1 THEN PErr(UnexpectedLength)
                ELSE IF b[i] = 0 THEN POk(FALSE, i + 1)
                ELSE IF b[i] = 1 THEN POk(TRUE, i + 1)
                ELSE PErr("Invalid bool representation")
          [] t.k = "String" ->
                IF avail < 4 THEN PErr(UnexpectedLength)
                ELSE IF avail - 4 < len THEN PErr(UnexpectedLength)
                ELSE Utf8Decode(b, i + 4, i + 3 + len, <<>>)
          [] t.k = "Vec" ->
                IF avail < 4 THEN PErr(UnexpectedLength)
                ELSE BorshElements(t.of[1], b, i + 4, len, <<>>)
          [] t.k = "Slice" -> BorshElements(t.of[1], b, i, t.n, <<>>)

-----------------------------------------------------------------------------
(* format!("{:?}", data) *)

MagText(mag) == [j \in 1..Len(mag) |-> DigitChar(mag[j])]

RECURSIVE HexChars(_)
HexChars(x) ==
    IF x < 16 THEN <<HexDigits[x + 1]>>
    ELSE Append(HexChars(x \div 16), HexDigits[(x % 16) + 1])

\* char::escape_debug inside a string: quotes, backslash and control
\* characters are escaped, the other characters of the model are printable
EscapeDebug(c) ==
    LET cp == CodeOf(c)
    IN  CASE c = "\"" -> <<"\\", "\"">>
          [] c = "\\" -> <<"\\", "\\">>
          [] c = "\t" -> <<"\\", "t">>
          [] c = "\n" -> <<"\\", "n">>
          [] c = "\r" -> <<"\\", "r">>
          [] cp = 0   -> <<"\\", "0">>
          [] cp < 32 \/ cp \in 127..159 -> <<"\\", "u", "{">> \o HexChars(cp) \o <<"}">>
          [] OTHER -> <<c>>

\* the texts of the elements with a comma and no space between them
RECURSIVE JoinComma(_)
JoinComma(ts) ==
    IF ts = <<>> THEN <<>>
    ELSE IF Len(ts) = 1 THEN ts[1]
    ELSE ts[1] \o <<",">> \o JoinComma(Tail(ts))

RECURSIVE JoinCommaSpace(_)
JoinCommaSpace(ts) ==
    IF ts = <<>> THEN <<>>
    ELSE IF Len(ts) = 1 THEN ts[1]
    ELSE ts[1] \o <<",", " ">> \o JoinCommaSpace(Tail(ts))

\* <T as Debug>::fmt
RECURSIVE DebugFmt(_, _)
DebugFmt(t, v) ==
    CASE t.k = "int"    -> (IF v.neg THEN <<"-">> ELSE <<>>) \o MagText(v.mag)
      [] t.k = "bool"   -> IF v THEN <<"t", "r", "u", "e">> ELSE <<"f", "a", "l", "s", "e">>
      [] t.k = "String" -> <<"\"">> \o Concat([j \in 1..Len(v) |-> EscapeDebug(v[j])])
                              \o <<"\"">>
      [] t.k \in {"Vec", "Slice", "Array"} ->
            <<"[">> \o JoinCommaSpace([j \in 1..Len(v) |-> DebugFmt(t.of[1], v[j])]) \o <<"]">>
      [] t.k = "Option" -> IF v = <<>> THEN <<"N", "o", "n", "e">>
                           ELSE <<"S", "o", "m", "e", "(">> \o DebugFmt(t.of[1], v[1]) \o <<")">>

-----------------------------------------------------------------------------
(* error.rs: ClientError and its conversion into the returned String *)

\* <serde_json::Error as Display>: the leading words of the message (the
\* offending token and the line and column that follow are left out)
SerdeErrorText(e) ==
    CASE e = "invalid type" ->
          <<"i", "n", "v", "a", "l", "i", "d", " ", "t", "y", "p", "e">>
      [] e = "invalid value" ->
          <<"i", "n", "v", "a", "l", "i", "d", " ", "v", "a", "l", "u", "e">>
      [] e = "invalid length" ->
          <<"i", "n", "v", "a", "l", "i", "d", " ", "l", "e", "n", "g", "t", "h">>
      [] e = "invalid number" ->
          <<"i", "n", "v", "a", "l", "i", "d", " ", "n", "u", "m", "b", "e", "r">>
      [] e = "number out of range" ->
          <<"n", "u", "m", "b", "e", "r", " ", "o", "u", "t", " ", "o", "f", " ", "r", "a",
            "n", "g", "e">>
      [] e = "expected value" ->
          <<"e", "x", "p", "e", "c", "t", "e", "d", " ", "v", "a", "l", "u", "e">>
      [] e = "expected ident" ->
          <<"e", "x", "p", "e", "c", "t", "e", "d", " ", "i", "d", "e", "n", "t">>
      [] e = "EOF while parsing a value" ->
          <<"E", "O", "F", " ", "w", "h", "i", "l", "e", " ", "p", "a", "r", "s", "i", "n",
            "g", " ", "a", " ", "v", "a", "l", "u", "e">>
      [] e = "EOF while parsing a list" ->
          <<"E", "O", "F", " ", "w", "h", "i", "l", "e", " ", "p", "a", "r", "s", "i", "n",
            "g", " ", "a", " ", "l", "i", "s", "t">>
      [] e = "EOF while parsing a string" ->
          <<"E", "O", "F", " ", "w", "h", "i", "l", "e", " ", "p", "a", "r", "s", "i", "n",
            "g", " ", "a", " ", "s", "t", "r", "i", "n", "g">>
      [] e = "expected list comma or end" ->
          <<"e", "x", "p", "e", "c", "t", "e", "d", " ", "c", "o", "m", "m", "a", " ", "o",
            "r", " ", "e", "n", "d", " ", "o", "f", " ", "l", "i", "s", "t">>
      [] e = "trailing comma" ->
          <<"t", "r", "a", "i", "l", "i", "n", "g", " ", "c", "o", "m", "m", "a">>
      [] e = "trailing characters" ->
          <<"t", "r", "a", "i", "l", "i", "n", "g", " ", "c", "h", "a", "r", "a", "c", "t",
            "e", "r", "s">>
      [] e = "invalid escape" ->
          <<"i", "n", "v", "a", "l", "i", "d", " ", "e", "s", "c", "a", "p", "e">>
      [] e = "control character while parsing a string" ->
          <<"c", "o", "n", "t", "r", "o", "l", " ", "c", "h", "a", "r", "a", "c", "t", "e",
            "r", " ", "(", "\\", "u", "0", "0", "0", "0", "-", "\\", "u", "0", "0", "1",
            "F", ")", " ", "f", "o", "u", "n", "d", " ", "w", "h", "i", "l", "e", " ", "p",
            "a", "r", "s", "i", "n", "g", " ", "a", " ", "s", "t", "r", "i", "n", "g">>

\* std::io::ErrorKind of the errors borsh returns
BorshErrorKind(e) ==
    IF e = "invalid utf-8 sequence"
    THEN <<"I", "n", "v", "a", "l", "i", "d", "D", "a", "t", "a">>
    ELSE <<"I", "n", "v", "a", "l", "i", "d", "I", "n", "p", "u", "t">>

BorshErrorText(e) ==
    CASE e = "Unexpected length of input" ->
          <<"U", "n", "e", "x", "p", "e", "c", "t", "e", "d", " ", "l", "e", "n", "g", "t",
            "h", " ", "o", "f", " ", "i", "n", "p", "u", "t">>
      [] e = "Invalid bool representation" ->
          <<"I", "n", "v", "a", "l", "i", "d", " ", "b", "o", "o", "l", " ", "r", "e", "p",
            "r", "e", "s", "e", "n", "t", "a", "t", "i", "o", "n">>
      [] e = "invalid utf-8 sequence" ->
          <<"i", "n", "v", "a", "l", "i", "d", " ", "u", "t", "f", "-", "8", " ", "s", "e",
            "q", "u", "e", "n", "c", "e">>

InvalidInput == <<"I", "n", "v", "a", "l", "i", "d", "I", "n", "p", "u", "t">>

\* a message that names the type it was given
NotSupportedTextNamingType ==
    <<"P", "r", "o", "v", "i", "d", "e", "d", " ", "d", "a", "t", "a", " ", "t", "y", "p",
      "e", " ">> \o type_name
      \o <<" ", "i", "s", " ", "n", "o", "t", " ", "s", "u", "p", "p", "o", "r", "t", "e", "d">>

NotSupportedText ==
    <<"P", "r", "o", "v", "i", "d", "e", "d", " ", "d", "a", "t", "a", " ", "t", "y", "p",
      "e", "s", " ", "i", "s", " ", "n", "o", "t", " ", "s", "u", "p", "p", "o", "r", "t",
      "e", "d">>

\* <str as Debug>::fmt
DebugStr(str) == <<"\"">> \o Concat([j \in 1..Len(str) |-> EscapeDebug(str[j])]) \o <<"\"">>

\* <std::io::Error as Debug>::fmt of Error::new(kind, message)
DebugIoError(kind, message) ==
    <<"C", "u", "s", "t", "o", "m", " ", "{", " ", "k", "i", "n", "d", ":", " ">> \o kind
      \o <<",", " ", "e", "r", "r", "o", "r", ":", " ">> \o DebugStr(message) \o <<" ", "}">>

\* ClientError::FailToConvertReturnDataToTargetType(e).into()
FailToConvertReturnDataToTargetType(kind, message) ==
    <<"F", "a", "i", "l", " ", "t", "o", " ", "c", "o", "n", "v", "e", "r", "t", " ", "t",
      "o", " ", "t", "a", "r", "g", "e", "t", " ", "d", "a", "t", "a", " ", "t", "y", "p",
      "e", ".", " ">>
      \o DebugIoError(kind, message)

\* ClientError::FailToSerializeCallArgument(e).into()
FailToSerializeCallArgument(message) ==
    <<"F", "a", "i", "l", " ", "t", "o", " ", "s", "e", "r", "i", "a", "l", "i", "z", "e",
      " ", "c", "a", "l", "l", " ", "a", "r", "g", "u", "m", "e", "n", "t", ".", " ">>
      \o DebugStr(message)

-----------------------------------------------------------------------------
(* parser.rs: the two codec functions *)

\* the primitive types in the order of serialize_call_args!
SerializePrimitives == SignedInts \o UnsignedInts \o <<BoolT, StringT>>

\* the primitive types in the order of convert_to_data_type!
ConvertPrimitives == UnsignedInts \o SignedInts \o <<BoolT, StringT>>

\* the types listed in the invocation of serialize_call_args!
SerializeCallArgsTypes ==
    SerializePrimitives
      \o [j \in 1..12 |-> VecT(SerializePrimitives[j])]
      \o [j \in 1..12 |-> OptionT(SerializePrimitives[j])]
      \o [j \in 1..12 |-> VecT(VecT(SerializePrimitives[j]))]
      \o [j \in 1..12 |-> OptionT(VecT(SerializePrimitives[j]))]
      \o [j \in 1..12 |-> VecT(OptionT(SerializePrimitives[j]))]
      \o <<ArrayT(32), ArrayT(64)>>

\* stringify!($t).replace(" ", "") for each of them
SerializeCallArgsNames ==
    [j \in 1..Len(SerializeCallArgsTypes) |->
        Replace(Stringify(SerializeCallArgsTypes[j]), " ", <<>>)]

\* the types of convert_to_data_type!, convert_to_vecs! and convert_to_slice!
ConvertTypes ==
    ConvertPrimitives \o [j \in 1..12 |-> VecT(ConvertPrimitives[j])]
      \o <<SliceT(32), SliceT(64)>>

\* the names of the arms with the arrays under the spelling Array<u8,N>
ConvertNamesArraySpelling ==
    [j \in 1..Len(ConvertTypes) |->
        IF ConvertTypes[j].k = "Slice"
        THEN <<"A", "r", "r", "a", "y", "<", "u", "8", ",">> \o NatText(ConvertTypes[j].n)
               \o <<">">>
        ELSE Stringify(ConvertTypes[j])]

\* stringify!($t), concat!("Vec<", stringify!($t), ">") and
\* concat!("[u8;", stringify!($s), "]")
ConvertNames ==
    [j \in 1..Len(ConvertTypes) |->
        IF ConvertTypes[j].k = "Slice" THEN SliceName(ConvertTypes[j].n)
        ELSE Stringify(ConvertTypes[j])]

LowerLetters ==
    <<"a", "b", "c", "d", "e", "f", "g", "h", "i", "j", "k", "l", "m", "n", "o", "p", "q",
      "r", "s", "t", "u", "v", "w", "x", "y", "z">>

UpperLetters ==
    <<"A", "B", "C", "D", "E", "F", "G", "H", "I", "J", "K", "L", "M", "N", "O", "P", "Q",
      "R", "S", "T", "U", "V", "W", "X", "Y", "Z">>

\* str::to_ascii_uppercase
ToAsciiUppercase(s) ==
    [j \in 1..Len(s) |->
        IF \E k \in 1..26 : LowerLetters[k] = s[j]
        THEN UpperLetters[CHOOSE k \in 1..26 : LowerLetters[k] = s[j]]
        ELSE s[j]]

\* a dispatch that compares the names without regard to letter case
FirstMatchIgnoringCase(names, dt) ==
    IF \E j \in 1..Len(names) : ToAsciiUppercase(names[j]) = ToAsciiUppercase(dt)
    THEN CHOOSE j \in 1..Len(names) :
             /\ ToAsciiUppercase(names[j]) = ToAsciiUppercase(dt)
             /\ \A h \in 1..(j - 1) : ToAsciiUppercase(names[h]) # ToAsciiUppercase(dt)
    ELSE 0

\* the arm of a dispatch macro that the name selects: the first entry of the
\* table equal to it, or 0 when the invocation falls through to its last line
FirstMatch(names, dt) ==
    IF \E j \in 1..Len(names) : names[j] = dt
    THEN CHOOSE j \in 1..Len(names) : names[j] = dt /\ \A h \in 1..(j - 1) : names[h] # dt
    ELSE 0

ROk(out) == [ok |-> TRUE,  out |-> out,  err |-> <<>>]
RErr(e)  == [ok |-> FALSE, out |-> <<>>, err |-> e]

\* a normalisation that takes every bracket form the pattern matches for an
\* array of u8
SerializeDtAnyElement(data_type) ==
    LET dt_no_space == Replace(data_type, " ", <<>>)
    IN  IF ReIsMatch(dt_no_space)
        THEN <<"A", "r", "r", "a", "y", "<", "u", "8", ",">>
               \o SubSeq(dt_no_space, Len(dt_no_space) - 2, Len(dt_no_space) - 1) \o <<">">>
        ELSE dt_no_space

\* the text tested against the table when the spaces are left in the name
SerializeDtKeepingSpaces(data_type) ==
    IF ReIsMatch(data_type)
    THEN Replace(Replace(Replace(data_type,
             "[", <<"A", "r", "r", "a", "y", "<">>), ";", <<",">>), "]", <<">">>)
    ELSE data_type

\* the text tested against the table of serialize_call_args!
SerializeDtNoSpace(data_type) ==
    LET dt_no_space == Replace(data_type, " ", <<>>)
    IN  IF ReIsMatch(dt_no_space)
        THEN Replace(Replace(Replace(dt_no_space,
                 "[", <<"A", "r", "r", "a", "y", "<">>), ";", <<",">>), "]", <<">">>)
        ELSE dt_no_space

\* the arm of serialize_call_args! for the type t, after serde_json::from_str
\* gave data: its error, or the bytes of data.try_to_vec()
TryToVec(t, data) ==
    IF ~data.ok
    THEN RErr(FailToSerializeCallArgument(SerdeErrorText(data.err)))
    ELSE ROk(BorshSerialize(t, data.val))

\* pub fn serialize_call_arguments(value: &str, data_type: &str)
serialize_call_arguments(value, data_type) ==
    LET arm == FirstMatch(SerializeCallArgsNames, SerializeDtNoSpace(data_type))
    IN  IF arm = 0
        THEN RErr(FailToConvertReturnDataToTargetType(InvalidInput, NotSupportedText))
        ELSE TryToVec(SerializeCallArgsTypes[arm], FromStr(SerializeCallArgsTypes[arm], value))

\* the text tested against the tables when every whitespace character is
\* taken out of the name
ConvertDtNoWhitespace(data_type) ==
    Replace(Replace(Replace(Replace(data_type, " ", <<>>), "\t", <<>>), "\n", <<>>), "\r", <<>>)

\* the text tested against the tables of call_result_to_data_type
ConvertDtNoSpace(data_type) == Replace(data_type, " ", <<>>)

\* the arm of a convert macro for the type t, after <$t>::deserialize gave
\* data: its error, or format!("{:?}", data)
FormatData(t, data) ==
    IF ~data.ok
    THEN RErr(FailToConvertReturnDataToTargetType(BorshErrorKind(data.err),
                                                  BorshErrorText(data.err)))
    ELSE ROk(DebugFmt(t, data.val))

\* the decoder on try_from_slice: bytes left over after the value are an error
TryFromSlice(t, vec, r) ==
    IF r.ok /\ r.pos <= Len(vec) THEN FormatData(t, PErr(UnexpectedLength))
    ELSE FormatData(t, r)

CallResultTryFromSlice(vec, data_type) ==
    LET arm == FirstMatch(ConvertNames, ConvertDtNoSpace(data_type))
    IN  IF arm = 0
        THEN RErr(FailToConvertReturnDataToTargetType(InvalidInput, NotSupportedText))
        ELSE TryFromSlice(ConvertTypes[arm], vec,
                          BorshDeserialize(ConvertTypes[arm], vec, 1))

\* pub fn call_result_to_data_type(vec: &Vec<u8>, data_type: String)
call_result_to_data_type(vec, data_type) ==
    LET arm == FirstMatch(ConvertNames, ConvertDtNoSpace(data_type))
    IN  IF arm = 0
        THEN RErr(FailToConvertReturnDataToTargetType(InvalidInput, NotSupportedText))
        ELSE FormatData(ConvertTypes[arm], BorshDeserialize(ConvertTypes[arm], vec, 1))

-----------------------------------------------------------------------------
(* The calls of the model: type names, value texts and buffers *)

\* type names of the tests and others that differ from a table entry in spaces only
SpacedNames ==
  <<
    <<"V", "e", "c", "<", " ", "i", "3", "2", " ", ">">>,
    <<"[", " ", "u", "8", " ", ";", " ", "6", "4", " ", "]">>,
    <<"[", " ", "u", " ", "8", ";", " ", "3", " ", "2", "]">>,
    <<"[", " ", "u", " ", "8", ";", " ", "6", " ", "4", "]">>,
    <<"V", "e", "c", "<", " ", "S", "t", "r", "i", "n", "g", " ", ">">>,
    <<"V", "e", "c", "<", " ", "O", "p", "t", "i", "o", "n", " ", "<", " ", "S", "t", "r",
      "i", "n", "g", " ", ">", " ", ">">>,
    <<"O", "p", "t", "i", "o", "n", "<", " ", "V", "e", "c", " ", "<", " ", "S", "t", "r",
      "i", "n", "g", " ", ">", " ", ">">>,
    <<"V", "e", "c", "<", " ", "V", "e", "c", " ", "<", " ", "S", "t", "r", "i", "n", "g",
      " ", ">", " ", ">">>,
    <<" ", "u", "8">>,
    <<"b", " ", "o", " ", "o", " ", "l", " ">>,
    <<"A", "r", "r", "a", "y", "<", "u", "8", ",", " ", "3", "2", ">">>,
    <<"A", "r", "r", "a", "y", "<", " ", "u", "8", " ", ",", " ", "6", "4", " ", ">">>
  >>

\* type names holding a tab, a line feed or a carriage return
OtherWhitespaceNames ==
  <<
    <<"V", "e", "c", "<", "\t", "u", "8", ">">>,
    <<"u", "8", "\n">>,
    <<"\r", "u", "8">>,
    <<"[", "u", "8", ";", "\t", "3", "2", "]">>,
    <<"b", "o", "o", "l", "\t">>,
    <<"V", "e", "c", "<", "\n", "i", "3", "2", ">">>,
    <<"\t", "S", "t", "r", "i", "n", "g">>,
    <<"[", "u", "8", ";", "6", "4", "]", "\r", "\n">>
  >>

\* type names that differ from a supported one in letter case or punctuation
NearMissNames ==
  <<
    <<"v", "e", "c", "<", "u", "8", ">">>,
    <<"s", "t", "r", "i", "n", "g">>,
    <<"B", "o", "o", "l">>,
    <<"[", "u", "8", ",", "3", "2", "]">>,
    <<"V", "e", "c", "<", "u", "8">>,
    <<"V", "E", "C", "<", "U", "8", ">">>,
    <<"U", "8">>,
    <<"V", "e", "c", "(", "u", "8", ")">>,
    <<"[", "u", "8", ":", "3", "2", "]">>,
    <<"[", "U", "8", ";", "6", "4", "]">>,
    <<"o", "p", "t", "i", "o", "n", "<", "b", "o", "o", "l", ">">>,
    <<"[", "u", "8", ";", "6", "4">>,
    <<"u", "8", ";", "3", "2", "]">>,
    <<"V", "e", "c", "<", "u", "8", ">", ">">>,
    <<"B", "O", "O", "L">>,
    <<"V", "e", "c", "[", "u", "8", "]">>,
    <<"I", "1", "2", "8">>,
    <<"O", "p", "t", "i", "o", "n", "<", "v", "e", "c", "<", "S", "t", "r", "i", "n", "g",
      ">", ">">>,
    <<"S", "T", "R", "I", "N", "G">>,
    <<"V", "e", "c", "<", "O", "p", "t", "i", "o", "n", "<", "s", "t", "r", "i", "n", "g",
      ">", ">">>
  >>

\* type names outside the tables: other nestings, bracket forms and words
UnsupportedNames ==
  <<
    <<"V", "e", "c", "<", "V", "e", "c", "<", "V", "e", "c", "<", "b", "o", "o", "l", ">",
      ">", ">">>,
    <<"[", "u", "8", ";", "1", "6", "]">>,
    <<"[", "u", "8", ";", "3", "3", "]">>,
    <<"[", "u", "8", ";", "0", "]">>,
    <<"[", "u", "8", ";", "1", "2", "8", "]">>,
    <<"[", "i", "8", ";", "3", "2", "]">>,
    <<"[", "u", "1", "6", ";", "6", "4", "]">>,
    <<"[", "u", "1", "2", "8", ";", "3", "2", "]">>,
    <<"[", "i", "1", "2", "8", ";", "6", "4", "]">>,
    <<"[", "u", "3", "2", ";", "3", "2", "]">>,
    <<"[", "i", "6", "4", ";", "6", "4", "]">>,
    <<"[", "b", "o", "o", "l", ";", "3", "2", "]">>,
    <<>>,
    <<"f", "3", "2">>,
    <<"u", "s", "i", "z", "e">>,
    <<"O", "p", "t", "i", "o", "n", "<", "O", "p", "t", "i", "o", "n", "<", "u", "8", ">",
      ">">>,
    <<"V", "e", "c", "<", "[", "u", "8", ";", "3", "2", "]", ">">>,
    <<"O", "p", "i", "o", "n", "<", "V", "e", "c", "<", "i", "8", ">", ">">>,
    <<"O", "p", "t", "i", "o", "n", "<", "V", "e", "c", "<", "V", "e", "c", "<", "u", "8",
      ">", ">", ">">>,
    <<"V", "e", "c", "<", "V", "e", "c", "<", "O", "p", "t", "i", "o", "n", "<", "u", "8",
      ">", ">", ">">>,
    <<"A", "r", "r", "a", "y", "<", "i", "8", ",", "3", "2", ">">>,
    <<"A", "r", "r", "a", "y", "<", "u", "8", ",", "1", "6", ">">>,
    <<"[", "[", "u", "8", ";", "3", "2", "]", "]">>,
    <<"u", "7">>,
    <<"u", "2", "5", "6">>,
    <<"c", "h", "a", "r">>,
    <<"(", ")">>,
    <<"V", "e", "c", "<", ">">>,
    <<"[", "A", "r", "r", "a", "y", "<", "u", "8", ",", "3", "2", ">", "]">>
  >>

\* value texts: JSON of every shape, well formed and not
GenericTexts ==
  <<
    <<>>,
    <<"0">>,
    <<"1">>,
    <<"-", "1">>,
    <<"5">>,
    <<" ", "5", " ">>,
    <<"5", " ", "x">>,
    <<"-", "0">>,
    <<"0", "0", "7">>,
    <<"1", ".", "5">>,
    <<"1", "e", "2">>,
    <<"-">>,
    <<"2", "5", "5">>,
    <<"2", "5", "6">>,
    <<"-", "1", "2", "8">>,
    <<"-", "1", "2", "9">>,
    <<"t", "r", "u", "e">>,
    <<"f", "a", "l", "s", "e">>,
    <<"T", "r", "u", "e">>,
    <<"t", "r", "u">>,
    <<"n", "u", "l", "l">>,
    <<"n", "u", "l">>,
    <<"\"", "\"">>,
    <<"\"", "s", "s", "s", "\"">>,
    <<"\"", "t", "r", "u", "e", "\"">>,
    <<"\"", "5", "\"">>,
    <<"\"", "F", "a", "\\", "\"", "l", "\\", "\"", "s", "e", "\"">>,
    <<"\"", "a", "\\", "\\", "b", "\\", "n", "\"">>,
    <<"\"", "c", "a", "f", "U+e9", "\"">>,
    <<"\"", "u", "n", "t", "e", "r", "m", "i", "n", "a", "t", "e", "d">>,
    <<"s", "t", "r", "i", "n", "g", " ", "d", "a", "t", "a">>,
    <<"\"", "b", "a", "d", "\\", "x", "e", "s", "c", "a", "p", "e", "\"">>,
    <<"[", "]">>,
    <<"[", " ", "]">>,
    <<"[", "1", ",", "2", ",", "3", "]">>,
    <<"[", "-", "2", ",", " ", "-", "3", ",", " ", "5", ",", " ", "6", "]">>,
    <<"[", "1", ",", "2", ",", "]">>,
    <<"[", "1", " ", "2", "]">>,
    <<"[", "1", ",", "2">>,
    <<"[", ",", "1", "]">>,
    <<"[", "2", "5", "6", "]">>,
    <<"[", "-", "1", "]">>,
    <<"[", "t", "r", "u", "e", ",", "f", "a", "l", "s", "e", ",", "t", "r", "u", "e", "]">>,
    <<"[", "f", "a", "l", "s", "e", "]">>,
    <<"[", "\"", "s", "s", "s", "\"", ",", " ", "\"", "d", "d", "d", "\"", "]">>,
    <<"[", "\"", "s", "s", "s", "\"", ",", " ", "n", "u", "l", "l", "]">>,
    <<"[", "n", "u", "l", "l", "]">>,
    <<"[", "n", "u", "l", "l", ",", " ", "7", "]">>,
    <<"[", "[", "\"", "s", "s", "s", "\"", "]", ",", " ", "[", "\"", "d", "d", "d", "\"",
      "]", "]">>,
    <<"[", "[", "1", ",", "2", "]", ",", "[", "3", "]", "]">>,
    <<"[", "[", "]", "]">>,
    <<"[", "[", "-", "1", ",", " ", "-", "3", "]", ",", " ", "[", "-", "5", "]", "]">>,
    <<"[", "[", "t", "r", "u", "e", ",", " ", "f", "a", "l", "s", "e", "]", ",", " ", "[",
      "t", "r", "u", "e", "]", "]">>,
    <<"[", "[", "[", "t", "r", "u", "e", "]", "]", "]">>,
    <<"[", "1", ",", "[", "2", "]", "]">>,
    <<"[", "\"", "a", "\"", ",", "1", "]">>,
    <<"{", "}">>,
    <<"{", "\"", "a", "\"", ":", "1", "}">>,
    <<"[", "1", ".", "0", "]">>,
    <<"[", "1", ",", "n", "u", "l", "l", "]">>
  >>

\* the largest number of elements of a sample vector
MaxVecLen == 2

\* the largest number of spaces put between two characters of a type name
MaxPad == 1

SeqRange(s) == {s[j] : j \in 1..Len(s)}

\* sample values of a type of the tables
RECURSIVE Samples(_)

\* vectors of 0..MaxVecLen elements taken in turn from the samples e
SampleVectors(e) ==
    <<<<>>>> \o [h \in 1..(2 * MaxVecLen) |->
                   [j \in 1..((h + 1) \div 2) |-> e[((j + h - 2) % Len(e)) + 1]]]

Samples(t) ==
    CASE t.k = "int" /\ t.signed ->
            << IntVal(FALSE, <<0>>), IntVal(FALSE, <<1>>), IntVal(TRUE, <<1>>),
               IntVal(FALSE, SignedMax(t.w)), IntVal(TRUE, SignedMinMag(t.w)) >>
      [] t.k = "int" /\ ~t.signed ->
            << IntVal(FALSE, <<0>>), IntVal(FALSE, <<1>>), IntVal(FALSE, <<1, 2, 3>>),
               IntVal(FALSE, UnsignedMax(t.w)) >>
      [] t.k = "bool" -> <<TRUE, FALSE>>
      [] t.k = "String" ->
            << <<>>, <<"s", "s", "s">>, <<"F", "a", "\"", "l", "\"", "s", "e">>,
               <<"a", "\\", "b", "\n">>, <<"c", "a", "f", "U+e9">> >>
      [] t.k = "Vec" -> SampleVectors(Samples(t.of[1]))
      [] t.k = "Option" ->
            <<<<>>>> \o [j \in 1..Len(Samples(t.of[1])) |-> <<Samples(t.of[1])[j]>>]
      [] t.k \in {"Array", "Slice"} ->
            << [j \in 1..t.n |-> IntVal(FALSE, <<j % 10>>)],
               [j \in 1..t.n |-> IntVal(FALSE, <<2, 5, 5>>)],
               [j \in 1..t.n |-> IntVal(FALSE, <<2>>)] >>

\* a character inside a JSON string literal
JsonEscape(c) ==
    CASE c = "\"" -> <<"\\", "\"">>
      [] c = "\\" -> <<"\\", "\\">>
      [] c = "\n" -> <<"\\", "n">>
      [] c = "\t" -> <<"\\", "t">>
      [] c = "\r" -> <<"\\", "r">>
      [] OTHER -> <<c>>

\* the JSON text of a value of type t
RECURSIVE JsonOf(_, _)
JsonOf(t, v) ==
    CASE t.k = "int"    -> (IF v.neg THEN <<"-">> ELSE <<>>) \o MagText(v.mag)
      [] t.k = "bool"   -> IF v THEN <<"t", "r", "u", "e">> ELSE <<"f", "a", "l", "s", "e">>
      [] t.k = "String" -> <<"\"">> \o Concat([j \in 1..Len(v) |-> JsonEscape(v[j])]) \o <<"\"">>
      [] t.k \in {"Vec", "Array", "Slice"} ->
            <<"[">> \o JoinCommaSpace([j \in 1..Len(v) |-> JsonOf(t.of[1], v[j])]) \o <<"]">>
      [] t.k = "Option" -> IF v = <<>> THEN <<"n", "u", "l", "l">> ELSE JsonOf(t.of[1], v[1])

\* name with pad spaces before every character and after the last
Spread(name, pad) ==
    Concat([j \in 1..Len(name) |-> [h \in 1..pad |-> " "] \o <<name[j]>>])
      \o [h \in 1..pad |-> " "]

\* the spelling of a table type that a caller writes: [u8;N] for Array<u8, N>
WrittenName(t) ==
    IF t.k \in {"Array", "Slice"} THEN SliceName(t.n) ELSE Stringify(t)

WrittenNames == {WrittenName(SerializeCallArgsTypes[j]) : j \in 1..Len(SerializeCallArgsTypes)}

AllNames ==
    WrittenNames \cup SeqRange(SpacedNames) \cup SeqRange(OtherWhitespaceNames)
      \cup SeqRange(NearMissNames) \cup SeqRange(UnsupportedNames)

\* the integer literals at both ends of every integer type and one beyond
RangeTexts ==
    UNION {
      { JsonOf(IntT(FALSE, w), IntVal(FALSE, UnsignedMax(w))),
        JsonOf(IntT(FALSE, w), IntVal(FALSE, MagMulAdd(UnsignedMax(w), 1, 1))),
        JsonOf(IntT(TRUE, w), IntVal(FALSE, SignedMax(w))),
        JsonOf(IntT(TRUE, w), IntVal(FALSE, MagMulAdd(SignedMax(w), 1, 1))),
        JsonOf(IntT(TRUE, w), IntVal(TRUE, SignedMinMag(w))),
        JsonOf(IntT(TRUE, w), IntVal(TRUE, MagMulAdd(SignedMinMag(w), 1, 1))) }
      : w \in SeqRange(Widths) }

IntNames == {Stringify(SerializePrimitives[j]) : j \in 1..10}

\* JSON arrays of len numbers, the last of them given
ArrayText(len, last) ==
    JsonOf(VecT(IntT(TRUE, 16)),
           [j \in 1..len |-> IF j = len THEN last ELSE IntVal(FALSE, <<j % 10>>)])

ArrayTexts ==
    { ArrayText(len, IntVal(FALSE, <<7>>)) : len \in {3, 31, 32, 33, 63, 64, 65} }
      \cup { ArrayText(len, IntVal(FALSE, <<2, 5, 6>>)) : len \in {32, 64} }
      \cup { ArrayText(len, IntVal(TRUE, <<1>>)) : len \in {32, 64} }

BracketNames ==
    { n \in AllNames : n # <<>> /\ (n[1] \in {"[", "A", " "} \/ n[Len(n)] = "]") }
      \cup { <<"V", "e", "c", "<", "u", "8", ">">>, <<"V", "e", "c", "<", "i", "8", ">">> }

\* the calls of serialize_call_arguments: <<data_type, value>>
EncodeCalls ==
    (AllNames \X SeqRange(GenericTexts))
      \cup (IntNames \X RangeTexts)
      \cup (BracketNames \X ArrayTexts)
      \cup UNION { UNION {
             { <<WrittenName(SerializeCallArgsTypes[j]),
                 JsonOf(SerializeCallArgsTypes[j], Samples(SerializeCallArgsTypes[j])[h])>> }
               \cup { <<Spread(WrittenName(SerializeCallArgsTypes[j]), pad),
                        JsonOf(SerializeCallArgsTypes[j], Samples(SerializeCallArgsTypes[j])[h])>>
                      : pad \in 1..MaxPad }
             : h \in 1..Len(Samples(SerializeCallArgsTypes[j])) }
           : j \in 1..Len(SerializeCallArgsTypes) }

\* buffers: short, exact, long; length prefixes with too few elements behind
\* them; bytes that are no bool and no UTF-8
Buffers ==
    { <<>>, <<0>>, <<1>>, <<2>>, <<255>>, <<1, 2, 3>>, <<0, 0, 0, 0>>, <<1, 0, 0, 0>>,
      <<255, 255, 255, 255>>, <<0, 0, 0, 128>>, <<1, 0, 0, 0, 1>>, <<2, 0, 0, 0, 1>>,
      <<2, 0, 0, 0, 1, 0>>, <<2, 0, 0, 0, 1, 0, 9, 9>>, <<3, 0, 0, 0, 115, 115, 115>>,
      <<3, 0, 0, 0, 115, 115>>, <<2, 0, 0, 0, 255, 254>>, <<2, 0, 0, 0, 195, 169>>,
      <<1, 0, 0, 0, 2>>, <<1, 0, 0, 0, 34>> }
      \cup { [j \in 1..len |-> (j * 37) % 256] : len \in {7, 8, 15, 16, 17, 31, 32, 33, 63, 64, 65} }
      \cup { [j \in 1..len |-> 255] : len \in {8, 16, 32} }

\* the calls of call_result_to_data_type: <<data_type, vec>>
DecodeCalls == AllNames \X Buffers

-----------------------------------------------------------------------------
(* parser.rs: CallArguments::from_json, on serde_json::Value *)

\* serde_json::Value: k names the variant, str holds the text of a String
\* (the literal of a Bool or a Number), items the elements of an Array or
\* the values of an Object, whose keys are in keys
JsonValue(k, str, keys, items) == [k |-> k, str |-> str, keys |-> keys, items |-> items]

JsonNull == JsonValue("Null", <<>>, <<>>, <<>>)

\* the Value of a scalar token that parsed: its text is the characters read
ScalarValue(k, s, i, token) ==
    IF token.ok THEN POk(JsonValue(k, SubSeq(s, i, token.pos - 1), <<>>, <<>>), token.pos)
    ELSE token

\* Value::String of a string that parsed
StringValue(token) ==
    IF token.ok THEN POk(JsonValue("String", token.val, <<>>, <<>>), token.pos) ELSE token

\* Value::Array of the elements that parsed
ArrayValue(els) ==
    IF els.ok THEN POk(JsonValue("Array", <<>>, <<>>, els.val), els.pos) ELSE els

\* Map::insert: the value of a key that is present already is replaced
MapInsert(obj, key, v) ==
    IF \E j \in 1..Len(obj.keys) : obj.keys[j] = key
    THEN [obj EXCEPT !.items = [j \in 1..Len(obj.items) |->
                                   IF obj.keys[j] = key THEN v ELSE obj.items[j]]]
    ELSE [obj EXCEPT !.keys = Append(obj.keys, key), !.items = Append(obj.items, v)]

RECURSIVE DeserializeAny(_, _)
RECURSIVE ArrayElements(_, _, _, _)
RECURSIVE ObjectEntries(_, _, _, _)

ArrayPush(s, el, acc) ==
    IF el.ok THEN ArrayElements(s, el.pos, FALSE, Append(acc, el.val)) ELSE el

\* the element that must follow at j
ArrayElementAt(s, j, acc) ==
    CASE Peek(s, j) = "]" -> PErr("trailing comma")
      [] Peek(s, j) = ""  -> PErr("EOF while parsing a value")
      [] OTHER -> ArrayPush(s, DeserializeAny(s, j), acc)

ArrayAt(s, i, first, acc) ==
    CASE Peek(s, i) = "]" -> POk(acc, i + 1)
      [] Peek(s, i) = ""  -> PErr("EOF while parsing a list")
      [] Peek(s, i) # "," /\ ~first -> PErr("expected list comma or end")
      [] OTHER ->
            ArrayElementAt(s, IF Peek(s, i) = "," /\ ~first THEN ParseWhitespace(s, i + 1)
                              ELSE i, acc)

\* SeqAccess::next_element_seed until the closing bracket, which end_seq eats
ArrayElements(s, i0, first, acc) == ArrayAt(s, ParseWhitespace(s, i0), first, acc)

ObjectPush(s, key, v, obj) ==
    IF v.ok THEN ObjectEntries(s, v.pos, FALSE, MapInsert(obj, key, v.val)) ELSE v

\* parse_object_colon, then the value of the key
ObjectValueAt(s, i, key, obj) ==
    CASE Peek(s, i) = ":" -> ObjectPush(s, key, DeserializeAny(s, i + 1), obj)
      [] Peek(s, i) = ""  -> PErr("EOF while parsing an object")
      [] OTHER -> PErr("expected colon")

ObjectKeyed(s, key, obj) ==
    IF key.ok THEN ObjectValueAt(s, ParseWhitespace(s, key.pos), key.val, obj) ELSE key

\* the key that must follow at j
ObjectKeyAt(s, j, obj) ==
    CASE Peek(s, j) = "\"" -> ObjectKeyed(s, ParseStr(s, j + 1, <<>>), obj)
      [] Peek(s, j) = "}"  -> PErr("trailing comma")
      [] Peek(s, j) = ""   -> PErr("EOF while parsing a value")
      [] OTHER -> PErr("key must be a string")

ObjectAt(s, i, first, obj) ==
    CASE Peek(s, i) = "}" -> POk(obj, i + 1)
      [] Peek(s, i) = ""  -> PErr("EOF while parsing an object")
      [] Peek(s, i) # "," /\ ~first -> PErr("expected object comma or end")
      [] OTHER ->
            ObjectKeyAt(s, IF Peek(s, i) = "," /\ ~first THEN ParseWhitespace(s, i + 1)
                           ELSE i, obj)

\* MapAccess::next_key_seed and next_value_seed until the closing brace,
\* which end_map eats
ObjectEntries(s, i0, first, obj) == ObjectAt(s, ParseWhitespace(s, i0), first, obj)

\* the value that starts at i, whitespace skipped
ValueAt(s, i) ==
    CASE Peek(s, i) = ""  -> PErr("EOF while parsing a value")
      [] Peek(s, i) = "n" ->
            ScalarValue("Null", s, i, ParseIdent(s, i + 1, <<"u", "l", "l">>, 1))
      [] Peek(s, i) = "t" ->
            ScalarValue("Bool", s, i, ParseIdent(s, i + 1, <<"r", "u", "e">>, 1))
      [] Peek(s, i) = "f" ->
            ScalarValue("Bool", s, i, ParseIdent(s, i + 1, <<"a", "l", "s", "e">>, 1))
      [] Peek(s, i) = "-" -> ScalarValue("Number", s, i, ParseInteger(s, i + 1, FALSE))
      [] IsDigit(Peek(s, i)) -> ScalarValue("Number", s, i, ParseInteger(s, i, TRUE))
      [] Peek(s, i) = "\"" -> StringValue(ParseStr(s, i + 1, <<>>))
      [] Peek(s, i) = "[" -> ArrayValue(ArrayElements(s, i + 1, TRUE, <<>>))
      [] Peek(s, i) = "{" ->
            ObjectEntries(s, i + 1, TRUE, JsonValue("Object", <<>>, <<>>, <<>>))
      [] OTHER -> PErr("expected value")

\* <Value as Deserialize>::deserialize: deserialize_any on the serde_json
\* deserializer (numbers keep to the range of f64 and the nesting to the
\* recursion limit of 128 in the documents of the model)
DeserializeAny(s, i0) == ValueAt(s, ParseWhitespace(s, i0))

\* <Value as Index<&str>>::index: Null unless the value is an Object that
\* has the key
Index(v, key) ==
    IF v.k = "Object" /\ \E j \in 1..Len(v.keys) : v.keys[j] = key
    THEN v.items[CHOOSE j \in 1..Len(v.keys) : v.keys[j] = key]
    ELSE JsonNull

ArgumentsKey == <<"a", "r", "g", "u", "m", "e", "n", "t", "s">>
ArgumentTypeKey ==
    <<"a", "r", "g", "u", "m", "e", "n", "t", "_", "t", "y", "p", "e">>
ArgumentValueKey ==
    <<"a", "r", "g", "u", "m", "e", "n", "t", "_", "v", "a", "l", "u", "e">>

\* <serde_json::Error as Display> for the errors of objects (the line and
\* column that follow are left out); U+60 stands for the grave accent
JsonErrorText(e) ==
    CASE e = "EOF while parsing an object" ->
          <<"E", "O", "F", " ", "w", "h", "i", "l", "e", " ", "p", "a", "r", "s", "i", "n",
            "g", " ", "a", "n", " ", "o", "b", "j", "e", "c", "t">>
      [] e = "expected colon" ->
          <<"e", "x", "p", "e", "c", "t", "e", "d", " ", "U+60", ":", "U+60">>
      [] e = "expected object comma or end" ->
          <<"e", "x", "p", "e", "c", "t", "e", "d", " ", "U+60", ",", "U+60", " ", "o", "r",
            " ", "U+60", "}", "U+60">>
      [] e = "key must be a string" ->
          <<"k", "e", "y", " ", "m", "u", "s", "t", " ", "b", "e", " ", "a", " ", "s", "t",
            "r", "i", "n", "g">>
      [] OTHER -> SerdeErrorText(e)

\* ClientError::InvalidJson(e).into()
InvalidJson(e) ==
    <<"P", "r", "o", "v", "i", "d", "e", "d", " ", "j", "s", "o", "n", " ", "i", "s", " ",
      "n", "o", "t", " ", "v", "a", "l", "i", "d", ".", " ">> \o JsonErrorText(e)

\* ClientError::MissingFieldinJson(field_name).into()
MissingFieldinJson(field_name) ==
    <<"P", "r", "o", "v", "i", "d", "e", "d", " ", "j", "s", "o", "n", " ", "d", "o", "e",
      "s", " ", "n", "o", "t", " ", "c", "o", "n", "t", "a", "i", "n", " ", "f", "i", "e",
      "l", "d", " ", "w", "i", "t", "h", " ", "n", "a", "m", "e", " ", ":", " ">>
      \o field_name

\* an element that is kept whenever its argument_type is a string
HasArgumentTypeOnly(jarg) == Index(jarg, ArgumentTypeKey).k = "String"

\* the closure of filter_map gives Some: both fields are strings
HasBothStrings(jarg) ==
    /\ Index(jarg, ArgumentTypeKey).k = "String"
    /\ Index(jarg, ArgumentValueKey).k = "String"

\* (j_type.to_string(), j_val.to_string()) of the elements kept
TypeValuePairs(kept) ==
    [j \in 1..Len(kept) |->
        <<Index(kept[j], ArgumentTypeKey).str, Index(kept[j], ArgumentValueKey).str>>]

\* json_args.iter().filter_map(..).collect()
FilterMap(json_args) == TypeValuePairs(SelectSeq(json_args, HasBothStrings))

\* a reading of the field that takes whatever is no array for an empty one
JsonArgsOrEmpty(json_val) ==
    IF Index(json_val, ArgumentsKey).k = "Array"
    THEN ROk(FilterMap(Index(json_val, ArgumentsKey).items))
    ELSE ROk(<<>>)

\* json_val["arguments"].as_array(), then the pairs or the missing field
JsonArgs(json_val) ==
    IF Index(json_val, ArgumentsKey).k = "Array"
    THEN ROk(FilterMap(Index(json_val, ArgumentsKey).items))
    ELSE RErr(MissingFieldinJson(ArgumentsKey))

\* the match on serde_json::from_str(json_text)
OfDocument(doc) == IF doc.ok THEN JsonArgs(doc.val) ELSE RErr(InvalidJson(doc.err))

\* CallArguments::from_json: Ok(CallArguments{ arguments }) or the error text
from_json(json_data) == OfDocument(End(json_data, DeserializeAny(json_data, 1)))

-----------------------------------------------------------------------------
(* Inputs of from_json *)

\* elements of an arguments array: entries of the test, entries with a field
\* missing or not a string, with the fields in the other order or with more
\* fields, and elements that are no objects
ElementTexts ==
  <<
    <<"{", "\"", "a", "r", "g", "u", "m", "e", "n", "t", "_", "t", "y", "p", "e", "\"",
      ":", " ", "\"", "i", "8", "\"", ",", " ", "\"", "a", "r", "g", "u", "m", "e", "n",
      "t", "_", "v", "a", "l", "u", "e", "\"", ":", " ", "\"", "-", "1", "\"", "}">>,
    <<"{", "\"", "a", "r", "g", "u", "m", "e", "n", "t", "_", "t", "y", "p", "e", "\"",
      ":", " ", "\"", "V", "e", "c", "<", "O", "p", "i", "o", "n", "<", "i", "8", ">", ">",
      "\"", ",", " ", "\"", "a", "r", "g", "u", "m", "e", "n", "t", "_", "v", "a", "l",
      "u", "e", "\"", ":", " ", "\"", "[", "-", "1", ",", " ", "n", "u", "l", "l", ",",
      " ", "-", "5", "]", "\"", "}">>,
    <<"{", "\"", "a", "r", "g", "u", "m", "e", "n", "t", "_", "t", "y", "p", "e", "\"",
      ":", " ", "\"", "V", "e", "c", "<", "S", "t", "r", "i", "n", "g", ">", "\"", ",",
      " ", "\"", "a", "r", "g", "u", "m", "e", "n", "t", "_", "v", "a", "l", "u", "e",
      "\"", ":", " ", "\"", "[", "\\", "\"", "s", "t", "r", "i", "n", "g", " ", "d", "a",
      "t", "a", "\\", "\"", ",", " ", "\\", "\"", "a", "s", "d", "a", "f", "\\", "\"", "]",
      "\"", "}">>,
    <<"{", "\"", "a", "r", "g", "u", "m", "e", "n", "t", "_", "t", "y", "p", "e", "\"",
      ":", " ", "\"", "u", "8", "\"", "}">>,
    <<"{", "\"", "a", "r", "g", "u", "m", "e", "n", "t", "_", "t", "y", "p", "e", "\"",
      ":", " ", "\"", "u", "8", "\"", ",", " ", "\"", "a", "r", "g", "u", "m", "e", "n",
      "t", "_", "v", "a", "l", "u", "e", "\"", ":", " ", "5", "}">>,
    <<"{", "\"", "a", "r", "g", "u", "m", "e", "n", "t", "_", "v", "a", "l", "u", "e",
      "\"", ":", " ", "\"", "5", "\"", ",", " ", "\"", "a", "r", "g", "u", "m", "e", "n",
      "t", "_", "t", "y", "p", "e", "\"", ":", " ", "\"", "u", "8", "\"", "}">>,
    <<"{", "\"", "a", "r", "g", "u", "m", "e", "n", "t", "_", "t", "y", "p", "e", "\"",
      ":", " ", "\"", "V", "e", "c", "<", "O", "p", "i", "o", "n", "<", "b", "o", "o", "l",
      ">", ">", "\"", ",", " ", "\"", "a", "r", "g", "u", "m", "e", "n", "t", "_", "v",
      "a", "l", "u", "e", "\"", ":", " ", "\"", "[", "t", "r", "u", "e", ",", "f", "a",
      "l", "s", "e", ",", "n", "u", "l", "]", "\"", "}">>,
    <<"{", "\"", "a", "r", "g", "u", "m", "e", "n", "t", "_", "v", "a", "l", "u", "e",
      "\"", ":", " ", "\"", "5", "\"", "}">>,
    <<"{", "\"", "a", "r", "g", "u", "m", "e", "n", "t", "_", "t", "y", "p", "e", "\"",
      ":", " ", "n", "u", "l", "l", ",", " ", "\"", "a", "r", "g", "u", "m", "e", "n", "t",
      "_", "v", "a", "l", "u", "e", "\"", ":", " ", "\"", "5", "\"", "}">>,
    <<"{", "\"", "a", "r", "g", "u", "m", "e", "n", "t", "_", "t", "y", "p", "e", "\"",
      ":", " ", "[", "\"", "u", "8", "\"", "]", ",", " ", "\"", "a", "r", "g", "u", "m",
      "e", "n", "t", "_", "v", "a", "l", "u", "e", "\"", ":", " ", "\"", "5", "\"", "}">>,
    <<"{", "\"", "a", "r", "g", "u", "m", "e", "n", "t", "_", "t", "y", "p", "e", "\"",
      ":", " ", "\"", "b", "o", "o", "l", "\"", ",", " ", "\"", "a", "r", "g", "u", "m",
      "e", "n", "t", "_", "v", "a", "l", "u", "e", "\"", ":", " ", "t", "r", "u", "e", "}">>,
    <<"{", "\"", "a", "r", "g", "u", "m", "e", "n", "t", "_", "t", "y", "p", "e", "\"",
      ":", " ", "{", "\"", "n", "a", "m", "e", "\"", ":", " ", "\"", "u", "8", "\"", "}",
      ",", " ", "\"", "a", "r", "g", "u", "m", "e", "n", "t", "_", "v", "a", "l", "u", "e",
      "\"", ":", " ", "\"", "5", "\"", "}">>,
    <<"7">>,
    <<"\"", "u", "8", "\"">>,
    <<"[", "\"", "a", "r", "g", "u", "m", "e", "n", "t", "_", "t", "y", "p", "e", "\"",
      ",", " ", "\"", "a", "r", "g", "u", "m", "e", "n", "t", "_", "v", "a", "l", "u", "e",
      "\"", "]">>,
    <<"n", "u", "l", "l">>,
    <<"{", "}">>,
    <<"{", "\"", "a", "r", "g", "u", "m", "e", "n", "t", "_", "t", "y", "p", "e", "\"",
      ":", " ", "\"", "\"", ",", " ", "\"", "a", "r", "g", "u", "m", "e", "n", "t", "_",
      "v", "a", "l", "u", "e", "\"", ":", " ", "\"", "\"", "}">>,
    <<"{", "\"", "a", "r", "g", "u", "m", "e", "n", "t", "_", "t", "y", "p", "e", "\"",
      ":", " ", "\"", "u", "8", "\"", ",", " ", "\"", "a", "r", "g", "u", "m", "e", "n",
      "t", "_", "v", "a", "l", "u", "e", "\"", ":", " ", "\"", "5", "\"", ",", " ", "\"",
      "e", "x", "t", "r", "a", "\"", ":", " ", "{", "\"", "a", "\"", ":", " ", "[", "1",
      ",", " ", "-", "2", ".", "5", "e", "3", "]", "}", "}">>,
    <<"{", "\"", "A", "r", "g", "u", "m", "e", "n", "t", "_", "T", "y", "p", "e", "\"",
      ":", " ", "\"", "u", "8", "\"", ",", " ", "\"", "a", "r", "g", "u", "m", "e", "n",
      "t", "_", "v", "a", "l", "u", "e", "\"", ":", " ", "\"", "5", "\"", "}">>,
    <<"{", "\"", "a", "r", "g", "u", "m", "e", "n", "t", "_", "t", "y", "p", "e", "\"",
      ":", " ", "\"", "u", "8", "\"", ",", " ", "\"", "a", "r", "g", "u", "m", "e", "n",
      "t", "_", "v", "a", "l", "u", "e", "\"", ":", " ", "\"", "-", "0", ".", "5", "\"",
      "}">>
  >>

\* the 42 entries of the document of test_parse_arguments: <<type, value>>
TestArguments ==
  <<
    <<
      <<"i", "8">>,
      <<"-", "1">>
    >>,
    <<
      <<"V", "e", "c", "<", "i", "8", ">">>,
      <<"[", "-", "1", ",", " ", "-", "3", ",", " ", "-", "5", "]">>
    >>,
    <<
      <<"V", "e", "c", "<", "V", "e", "c", "<", "i", "8", ">", ">">>,
      <<"[", "[", "-", "1", ",", " ", "-", "3", "]", ",", " ", "[", "-", "5", "]", "]">>
    >>,
    <<
      <<"V", "e", "c", "<", "O", "p", "i", "o", "n", "<", "i", "8", ">", ">">>,
      <<"[", "-", "1", ",", " ", "n", "u", "l", "l", ",", " ", "-", "5", "]">>
    >>,
    <<
      <<"O", "p", "i", "o", "n", "<", "V", "e", "c", "<", "i", "8", ">", ">">>,
      <<"[", "-", "1", ",", " ", "-", "3", ",", " ", "-", "5", "]">>
    >>,
    <<
      <<"O", "p", "i", "o", "n", "<", "V", "e", "c", "<", "i", "8", ">", ">">>,
      <<"n", "u", "l", "l">>
    >>,
    <<
      <<"i", "1", "6">>,
      <<"-", "3", "0", "0", "0", "0">>
    >>,
    <<
      <<"V", "e", "c", "<", "i", "1", "6", ">">>,
      <<"[", "-", "1", "0", "0", "0", "1", ",", " ", "-", "3", "0", "0", "0", "1", ",",
        " ", "-", "5", "0", "0", "0", "1", "]">>
    >>,
    <<
      <<"V", "e", "c", "<", "V", "e", "c", "<", "i", "1", "6", ">", ">">>,
      <<"[", "[", "-", "1", "0", "0", "0", "1", ",", " ", "-", "3", "0", "0", "0", "1",
        "]", ",", " ", "[", "-", "5", "0", "0", "0", "1", "]", "]">>
    >>,
    <<
      <<"V", "e", "c", "<", "O", "p", "i", "o", "n", "<", "i", "1", "6", ">", ">">>,
      <<"[", "-", "1", "0", "0", "0", "1", ",", " ", "n", "u", "l", "l", ",", " ", "-",
        "5", "0", "0", "0", "1", "]">>
    >>,
    <<
      <<"O", "p", "i", "o", "n", "<", "V", "e", "c", "<", "i", "1", "6", ">">>,
      <<"[", "-", "1", "0", "0", "0", "1", ",", " ", "-", "3", "0", "0", "0", "1", ",",
        " ", "-", "5", "0", "0", "0", "1", "]">>
    >>,
    <<
      <<"O", "p", "i", "o", "n", "<", "V", "e", "c", "<", "i", "1", "6", ">", ">">>,
      <<"n", "u", "l", "l">>
    >>,
    <<
      <<"i", "3", "2">>,
      <<"-", "1", "0", "9", "4", "9", "6", "7", "2", "9", "5">>
    >>,
    <<
      <<"V", "e", "c", "<", "i", "3", "2", ">">>,
      <<"[", "-", "1", ",", "0", ",", "1", "]">>
    >>,
    <<
      <<"i", "6", "4">>,
      <<"-", "9", "0", "4", "6", "7", "4", "4", "0", "7", "3", "7", "0", "9", "5", "5",
        "1", "6", "1", "5">>
    >>,
    <<
      <<"V", "e", "c", "<", "i", "6", "4", ">">>,
      <<"[", "-", "1", ",", "0", ",", "1", ",", "6", "5", "6", "5", "6", "5", "6", "5",
        "]">>
    >>,
    <<
      <<"i", "1", "2", "8">>,
      <<"-", "9", "0", "4", "6", "7", "4", "4", "0", "7", "3", "7", "0", "9", "5", "5",
        "1", "6", "1", "5">>
    >>,
    <<
      <<"V", "e", "c", "<", "i", "1", "2", "8", ">">>,
      <<"[", "-", "1", ",", "0", ",", "1", ",", "-", "6", "5", "6", "5", "6", "5", "6",
        "5", ",", "0", "]">>
    >>,
    <<
      <<"u", "8">>,
      <<"2", "5", "5">>
    >>,
    <<
      <<"V", "e", "c", "<", "u", "8", ">">>,
      <<"[", "0", "]">>
    >>,
    <<
      <<"u", "1", "6">>,
      <<"6", "5", "5", "3", "5">>
    >>,
    <<
      <<"V", "e", "c", "<", "u", "1", "6", ">">>,
      <<"[", "6", "5", "5", "3", "5", ",", "6", "5", "3", "5", "]">>
    >>,
    <<
      <<"u", "3", "2">>,
      <<"4", "2", "9", "4", "9", "6", "7", "2", "9", "5">>
    >>,
    <<
      <<"V", "e", "c", "<", "u", "3", "2", ">">>,
      <<"[", "6", "5", "5", "3", "5", ",", "6", "5", "3", "5", ",", "1", "9", "1", "9",
        "]">>
    >>,
    <<
      <<"u", "6", "4">>,
      <<"1", "8", "4", "4", "6", "7", "4", "4", "0", "7", "3", "7", "0", "9", "5", "5",
        "1", "6", "1", "5">>
    >>,
    <<
      <<"V", "e", "c", "<", "u", "6", "4", ">">>,
      <<"[", "6", "5", "5", "3", "5", ",", "6", "5", "3", "5", ",", "1", "9", "1", "9",
        "1", "1", "2", "1", "2", "3", "2", "2", "3", "]">>
    >>,
    <<
      <<"u", "1", "2", "8">>,
      <<"1", "8", "4", "4", "6", "7", "4", "4", "0", "7", "3", "7", "0", "9", "5", "5",
        "1", "6", "1", "6">>
    >>,
    <<
      <<"V", "e", "c", "<", "u", "1", "2", "8", ">">>,
      <<"[", "6", "5", "5", "3", "5", ",", "6", "5", "3", "5", ",", "1", "9", "1", "9",
        "1", "1", "2", "1", "2", "3", "2", "2", "3", ",", "1", "2", "3", "1", "2", "3",
        ",", "1", "2", "4", "1", "2", "4", ",", "1", "2", "5", "1", "5", "2", "]">>
    >>,
    <<
      <<"b", "o", "o", "l">>,
      <<"t", "r", "u", "e">>
    >>,
    <<
      <<"V", "e", "c", "<", "b", "o", "o", "l", ">">>,
      <<"[", "t", "r", "u", "e", ",", "f", "a", "l", "s", "e", ",", "t", "r", "u", "e",
        "]">>
    >>,
    <<
      <<"V", "e", "c", "<", "V", "e", "c", "<", "b", "o", "o", "l", ">", ">">>,
      <<"[", "[", "t", "r", "u", "e", ",", " ", "f", "a", "l", "s", "e", "]", ",", " ",
        "[", "t", "r", "u", "e", "]", "]">>
    >>,
    <<
      <<"V", "e", "c", "<", "O", "p", "i", "o", "n", "<", "b", "o", "o", "l", ">", ">">>,
      <<"[", "t", "r", "u", "e", ",", "f", "a", "l", "s", "e", ",", "n", "u", "l", "]">>
    >>,
    <<
      <<"O", "p", "i", "o", "n", "<", "V", "e", "c", "<", "b", "o", "o", "l", ">">>,
      <<"[", "t", "r", "u", "e", ",", "f", "a", "l", "s", "e", ",", "t", "r", "u", "e",
        "]">>
    >>,
    <<
      <<"O", "p", "i", "o", "n", "<", "V", "e", "c", "<", "b", "o", "o", "l", ">">>,
      <<"n", "u", "l", "l">>
    >>,
    <<
      <<"S", "t", "r", "i", "n", "g">>,
      <<"s", "t", "r", "i", "n", "g", " ", "d", "a", "t", "a">>
    >>,
    <<
      <<"V", "e", "c", "<", "S", "t", "r", "i", "n", "g", ">">>,
      <<"[", "\"", "s", "t", "r", "i", "n", "g", " ", "d", "a", "t", "a", "\"", ",", " ",
        "\"", "a", "s", "d", "a", "f", "\"", ",", " ", "\"", "1", "d", "1", " ", "a", "s",
        "2", "\"", "]">>
    >>,
    <<
      <<"V", "e", "c", "<", "V", "e", "c", "<", "S", "t", "r", "i", "n", "g", ">", ">">>,
      <<"[", "[", "\"", "s", "t", "r", "i", "n", "g", " ", "d", "a", "t", "a", "\"", "]",
        ",", " ", "[", "\"", "a", "s", "d", "a", "f", "\"", ",", " ", "\"", "1", "d", "1",
        " ", "a", "s", "2", "\"", "]", "]">>
    >>,
    <<
      <<"V", "e", "c", "<", "O", "p", "i", "o", "n", "<", "S", "t", "r", "i", "n", "g",
        ">", ">">>,
      <<"[", "\"", "s", "t", "r", "i", "n", "g", " ", "d", "a", "t", "a", "\"", ",", " ",
        "n", "u", "l", "l", ",", " ", "\"", "1", "d", "1", " ", "a", "s", "2", "\"", "]">>
    >>,
    <<
      <<"O", "p", "i", "o", "n", "<", "V", "e", "c", "<", "S", "t", "r", "i", "n", "g",
        ">">>,
      <<"[", "\"", "s", "t", "r", "i", "n", "g", " ", "d", "a", "t", "a", "\"", ",", " ",
        "\"", "a", "s", "d", "a", "f", "\"", ",", " ", "\"", "1", "d", "1", " ", "a", "s",
        "2", "\"", "]">>
    >>,
    <<
      <<"O", "p", "i", "o", "n", "<", "V", "e", "c", "<", "S", "t", "r", "i", "n", "g",
        ">">>,
      <<"n", "u", "l", "l">>
    >>,
    <<
      <<"[", "u", "8", ",", " ", "3", "2", "]">>,
      <<"[", "1", ",", "2", ",", "3", ",", "4", ",", "5", ",", "6", ",", "7", ",", "8",
        ",", "9", ",", "0", ",", "1", ",", "2", ",", "3", ",", "4", ",", "5", ",", "6",
        ",", "7", ",", "8", ",", "9", ",", "0", ",", "1", ",", "2", ",", "3", ",", "4",
        ",", "5", ",", "6", ",", "7", ",", "8", ",", "9", ",", "0", ",", "1", ",", "2",
        "]">>
    >>,
    <<
      <<"[", "u", "8", ",", " ", "6", "4", "]">>,
      <<"[", "1", ",", "2", ",", "3", ",", "4", ",", "5", ",", "6", ",", "7", ",", "8",
        ",", "9", ",", "0", ",", "1", ",", "2", ",", "3", ",", "4", ",", "5", ",", "6",
        ",", "7", ",", "8", ",", "9", ",", "0", ",", "1", ",", "2", ",", "3", ",", "4",
        ",", "5", ",", "6", ",", "7", ",", "8", ",", "9", ",", "0", ",", "1", ",", "2",
        ",", "1", ",", "2", ",", "3", ",", "4", ",", "5", ",", "6", ",", "7", ",", "8",
        ",", "9", ",", "0", ",", "1", ",", "2", ",", "3", ",", "4", ",", "5", ",", "6",
        ",", "7", ",", "8", ",", "9", ",", "0", ",", "1", ",", "2", ",", "3", ",", "4",
        ",", "5", ",", "6", ",", "7", ",", "8", ",", "9", ",", "0", ",", "1", ",", "2",
        "]">>
    >>
  >>

\* texts that are no JSON document
InvalidJsonTexts ==
  <<
    <<>>,
    <<" ">>,
    <<"{">>,
    <<"{", "\"", "a", "r", "g", "u", "m", "e", "n", "t", "s", "\"", ":", " ", "[">>,
    <<"{", "\"", "a", "r", "g", "u", "m", "e", "n", "t", "s", "\"", ":", " ", "[", "]">>,
    <<"{", "\"", "a", "r", "g", "u", "m", "e", "n", "t", "s", "\"", ":", " ", "[", "}">>,
    <<"{", "\"", "a", "r", "g", "u", "m", "e", "n", "t", "s", "\"", ":", " ", "[", "1",
      ",", "]", "}">>,
    <<"{", "\"", "a", "r", "g", "u", "m", "e", "n", "t", "s", "\"", " ", "[", "]", "}">>,
    <<"{", "\"", "a", "r", "g", "u", "m", "e", "n", "t", "s", "\"", ":", " ", "[", "]",
      ",", "}">>,
    <<"{", "a", "r", "g", "u", "m", "e", "n", "t", "s", ":", " ", "[", "]", "}">>,
    <<"{", "'", "a", "r", "g", "u", "m", "e", "n", "t", "s", "'", ":", " ", "[", "]", "}">>,
    <<"{", "\"", "a", "r", "g", "u", "m", "e", "n", "t", "s", "\"", ":", " ", "[", "]",
      "}", " ", "x">>,
    <<"{", "\"", "a", "r", "g", "u", "m", "e", "n", "t", "s", "\"", ":", " ", "[", "]",
      " ", "\"", "a", "\"", ":", " ", "1", "}">>,
    <<"{", "\"", "a", "r", "g", "u", "m", "e", "n", "t", "s", "\"", ":", " ", "[", "{",
      "\"", "a", "r", "g", "u", "m", "e", "n", "t", "_", "t", "y", "p", "e", "\"", ":",
      " ", "\"", "u", "8", "\"", ",", " ", "\"", "a", "r", "g", "u", "m", "e", "n", "t",
      "_", "v", "a", "l", "u", "e", "\"", ":", " ", "\"", "5", "\"", "}">>,
    <<"{", "\"", "a", "r", "g", "u", "m", "e", "n", "t", "s", "\"", ":", " ", "[", "{",
      "\"", "a", "r", "g", "u", "m", "e", "n", "t", "_", "t", "y", "p", "e", "\"", ":",
      " ", "\"", "u", "8", "\"", " ", "\"", "a", "r", "g", "u", "m", "e", "n", "t", "_",
      "v", "a", "l", "u", "e", "\"", ":", " ", "\"", "5", "\"", "}", "]", "}">>,
    <<"{", "\"", "a", "r", "g", "u", "m", "e", "n", "t", "s", "\"", ":", " ", "[", "{",
      "\"", "a", "r", "g", "u", "m", "e", "n", "t", "_", "t", "y", "p", "e", "\"", ":",
      " ", "\"", "u", "8", "\"", ",", " ", "\"", "a", "r", "g", "u", "m", "e", "n", "t",
      "_", "v", "a", "l", "u", "e", "\"", ":", " ", "\"", "5", "\"", "}", "]", ",", " ",
      "}">>,
    <<"{", "\"", "a", "r", "g", "u", "m", "e", "n", "t", "s", "\"", ":", " ", "[", "{",
      "\"", "a", "r", "g", "u", "m", "e", "n", "t", "_", "t", "y", "p", "e", "\"", ":",
      " ", "\"", "u", "8", "\"", ",", " ", "\"", "a", "r", "g", "u", "m", "e", "n", "t",
      "_", "v", "a", "l", "u", "e", "\"", ":", " ", "\"", "5", "\"", "}", ",", " ", "]",
      "}">>,
    <<"{", "\"", "a", "r", "g", "u", "m", "e", "n", "t", "s", "\"", ":", " ", "[", "0",
      "1", "]", "}">>,
    <<"{", "\"", "a", "r", "g", "u", "m", "e", "n", "t", "s", "\"", ":", " ", "[", "t",
      "r", "u", "]", "}">>,
    <<"{", "\"", "a", "r", "g", "u", "m", "e", "n", "t", "s", "\"", ":", " ", "[", "\"",
      "a", "\\", "x", "\"", "]", "}">>,
    <<"{", "\"", "a", "r", "g", "u", "m", "e", "n", "t", "s", "\"", ":", " ", "[", "1",
      ".", "]", "}">>,
    <<"{", "\"", "a", "r", "g", "u", "m", "e", "n", "t", "s", "\"", ":", " ", "[", "-",
      "]", "}">>,
    <<"{", "1", ":", " ", "[", "]", "}">>,
    <<"n", "u", "l">>,
    <<"{", "\"", "a", "r", "g", "u", "m", "e", "n", "t", "s", "\"", ":", " ", "[", "{",
      "\"", "a", "r", "g", "u", "m", "e", "n", "t", "_", "t", "y", "p", "e", "\"", ":",
      " ", "\"", "u", "8", "\"", ",", " ", "\"", "a", "r", "g", "u", "m", "e", "n", "t",
      "_", "v", "a", "l", "u", "e", "\"", ":", " ", "\"", "5", "}", "]", "}">>,
    <<"{", "\"", "a", "r", "g", "u", "m", "e", "n", "t", "s", "\"", ":", " ", "[", "1",
      " ", "2", "]", "}">>,
    <<"{", "\"", "a", "r", "g", "u", "m", "e", "n", "t", "s", "\"", ":", " ", "}">>,
    <<"a", "r", "g", "u", "m", "e", "n", "t", "s">>
  >>

\* JSON documents without an array in a top-level field arguments
NoArgumentsTexts ==
  <<
    <<"{", "}">>,
    <<"{", "\"", "a", "r", "g", "s", "\"", ":", " ", "[", "]", "}">>,
    <<"{", "\"", "A", "r", "g", "u", "m", "e", "n", "t", "s", "\"", ":", " ", "[", "]",
      "}">>,
    <<"{", "\"", "a", "r", "g", "u", "m", "e", "n", "t", "s", "\"", ":", " ", "5", "}">>,
    <<"{", "\"", "a", "r", "g", "u", "m", "e", "n", "t", "s", "\"", ":", " ", "n", "u",
      "l", "l", "}">>,
    <<"{", "\"", "a", "r", "g", "u", "m", "e", "n", "t", "s", "\"", ":", " ", "\"", "[",
      "]", "\"", "}">>,
    <<"{", "\"", "a", "r", "g", "u", "m", "e", "n", "t", "s", "\"", ":", " ", "{", "}",
      "}">>,
    <<"{", "\"", "a", "r", "g", "u", "m", "e", "n", "t", "s", "\"", ":", " ", "{", "\"",
      "0", "\"", ":", " ", "{", "\"", "a", "r", "g", "u", "m", "e", "n", "t", "_", "t",
      "y", "p", "e", "\"", ":", " ", "\"", "u", "8", "\"", ",", " ", "\"", "a", "r", "g",
      "u", "m", "e", "n", "t", "_", "v", "a", "l", "u", "e", "\"", ":", " ", "\"", "5",
      "\"", "}", "}", "}">>,
    <<"{", "\"", "a", "r", "g", "u", "m", "e", "n", "t", "s", "\"", ":", " ", "t", "r",
      "u", "e", "}">>,
    <<"[", "]">>,
    <<"[", "{", "\"", "a", "r", "g", "u", "m", "e", "n", "t", "_", "t", "y", "p", "e",
      "\"", ":", " ", "\"", "u", "8", "\"", ",", " ", "\"", "a", "r", "g", "u", "m", "e",
      "n", "t", "_", "v", "a", "l", "u", "e", "\"", ":", " ", "\"", "5", "\"", "}", "]">>,
    <<"5">>,
    <<"\"", "a", "r", "g", "u", "m", "e", "n", "t", "s", "\"">>,
    <<"n", "u", "l", "l">>,
    <<"t", "r", "u", "e">>,
    <<"{", "\"", "a", "\"", ":", " ", "{", "\"", "a", "r", "g", "u", "m", "e", "n", "t",
      "s", "\"", ":", " ", "[", "]", "}", "}">>,
    <<"{", "\"", "a", "r", "g", "u", "m", "e", "n", "t", "\"", ":", " ", "[", "{", "\"",
      "a", "r", "g", "u", "m", "e", "n", "t", "_", "t", "y", "p", "e", "\"", ":", " ",
      "\"", "u", "8", "\"", ",", " ", "\"", "a", "r", "g", "u", "m", "e", "n", "t", "_",
      "v", "a", "l", "u", "e", "\"", ":", " ", "\"", "5", "\"", "}", "]", "}">>,
    <<" ", "{", " ", "\"", "a", "r", "g", "u", "m", "e", "n", "t", "s", "\"", " ", ":",
      " ", "\"", "x", "\"", " ", ",", " ", "\"", "b", "\"", " ", ":", " ", "[", " ", "]",
      " ", "}", " ">>,
    <<"-", "1", ".", "5", "e", "2">>,
    <<"[", "{", "\"", "a", "r", "g", "u", "m", "e", "n", "t", "s", "\"", ":", " ", "[",
      "]", "}", "]">>
  >>

\* documents with a key twice, with other fields, with whitespace around
\* them, with escapes in the strings
OtherDocuments ==
  <<
    <<"{", "\"", "a", "r", "g", "u", "m", "e", "n", "t", "s", "\"", ":", " ", "[", "]",
      ",", " ", "\"", "a", "r", "g", "u", "m", "e", "n", "t", "s", "\"", ":", " ", "5",
      "}">>,
    <<"{", "\"", "a", "r", "g", "u", "m", "e", "n", "t", "s", "\"", ":", " ", "5", ",",
      " ", "\"", "a", "r", "g", "u", "m", "e", "n", "t", "s", "\"", ":", " ", "[", "]",
      "}">>,
    <<"{", "\"", "a", "r", "g", "u", "m", "e", "n", "t", "s", "\"", ":", " ", "[", "{",
      "\"", "a", "r", "g", "u", "m", "e", "n", "t", "_", "t", "y", "p", "e", "\"", ":",
      " ", "\"", "u", "8", "\"", ",", " ", "\"", "a", "r", "g", "u", "m", "e", "n", "t",
      "_", "t", "y", "p", "e", "\"", ":", " ", "5", ",", " ", "\"", "a", "r", "g", "u",
      "m", "e", "n", "t", "_", "v", "a", "l", "u", "e", "\"", ":", " ", "\"", "1", "\"",
      "}", "]", "}">>,
    <<"{", "\"", "a", "r", "g", "u", "m", "e", "n", "t", "s", "\"", ":", " ", "[", "{",
      "\"", "a", "r", "g", "u", "m", "e", "n", "t", "_", "t", "y", "p", "e", "\"", ":",
      " ", "5", ",", " ", "\"", "a", "r", "g", "u", "m", "e", "n", "t", "_", "t", "y", "p",
      "e", "\"", ":", " ", "\"", "u", "8", "\"", ",", " ", "\"", "a", "r", "g", "u", "m",
      "e", "n", "t", "_", "v", "a", "l", "u", "e", "\"", ":", " ", "\"", "1", "\"", "}",
      "]", "}">>,
    <<"{", "\"", "x", "\"", ":", " ", "1", ",", " ", "\"", "a", "r", "g", "u", "m", "e",
      "n", "t", "s", "\"", ":", " ", "[", "]", ",", " ", "\"", "y", "\"", ":", " ", "[",
      "1", ",", " ", "2", "]", "}">>,
    <<" ", "{", "\"", "a", "r", "g", "u", "m", "e", "n", "t", "s", "\"", ":", "[", "]",
      "}", " ">>,
    <<"{", "\"", "a", "r", "g", "u", "m", "e", "n", "t", "s", "\"", ":", " ", "[", "{",
      "\"", "a", "r", "g", "u", "m", "e", "n", "t", "_", "t", "y", "p", "e", "\"", ":",
      " ", "\"", "S", "t", "\\", "u", "0", "0", "7", "2", "i", "n", "g", "\"", ",", " ",
      "\"", "a", "r", "g", "u", "m", "e", "n", "t", "_", "v", "a", "l", "u", "e", "\"",
      ":", " ", "\"", "a", "\\", "\"", "b", "\\", "\\", "c", "\\", "n", "\"", "}", "]",
      "}">>
  >>

\* the most elements of an arguments array that are combined in every way
MaxArgs == 2

\* the elements that are combined in every way
CoreElements == SubSeq(ElementTexts, 1, 6)

\* the texts ts with a comma and a space between them
CommaSeparated(ts) ==
    Concat([j \in 1..Len(ts) |-> IF j = 1 THEN ts[1] ELSE <<",", " ">> \o ts[j]])

\* a document whose arguments array holds the elements els
ArgumentsDocument(els) ==
    <<"{", "\"", "a", "r", "g", "u", "m", "e", "n", "t", "s", "\"", ":", " ", "[">>
      \o CommaSeparated(els) \o <<"]", "}">>

\* an entry of the document of the test
EntryText(type, value) ==
    <<"{", "\"", "a", "r", "g", "u", "m", "e", "n", "t", "_", "t", "y", "p", "e", "\"", ":",
      " ">> \o JsonOf(StringT, type)
      \o <<",", " ", "\"", "a", "r", "g", "u", "m", "e", "n", "t", "_", "v", "a", "l", "u",
           "e", "\"", ":">> \o JsonOf(StringT, value) \o <<"}">>

\* the document of test_parse_arguments, an entry to a line
TestDocument ==
    <<" ", "\n", "{", "\n", "\"", "a", "r", "g", "u", "m", "e", "n", "t", "s", "\"", ":",
      " ", "[">>
      \o Concat([j \in 1..Len(TestArguments) |->
                   (IF j = 1 THEN <<"\n", " ", " ">> ELSE <<",", "\n", " ", " ">>)
                     \o EntryText(TestArguments[j][1], TestArguments[j][2])])
      \o <<"\n", "]", "\n", "}", "\n">>

\* the sequences of 0..MaxArgs core elements
CoreSequences == UNION { [1..n -> 1..Len(CoreElements)] : n \in 0..MaxArgs }

\* the documents with an arguments array: every sequence of core elements,
\* every element alone and between two entries, and the document of the test
ArrayDocuments ==
    { ArgumentsDocument([j \in 1..Len(f) |-> CoreElements[f[j]]]) : f \in CoreSequences }
      \cup { ArgumentsDocument(<<ElementTexts[v]>>) : v \in 1..Len(ElementTexts) }
      \cup { ArgumentsDocument(<<ElementTexts[1], ElementTexts[v], ElementTexts[3]>>)
             : v \in 1..Len(ElementTexts) }
      \cup { TestDocument }

\* the calls of from_json: json_data
Documents ==
    ArrayDocuments \cup SeqRange(InvalidJsonTexts) \cup SeqRange(NoArgumentsTexts)
      \cup SeqRange(OtherDocuments)

-----------------------------------------------------------------------------
(* parser.rs: base64url_to_bytes32, on pchain_types::Base64URL::decode *)

\* the URL-safe alphabet, in the order of the values 0..63
Base64UrlAlphabet ==
    UpperLetters \o LowerLetters
      \o <<"0", "1", "2", "3", "4", "5", "6", "7", "8", "9", "-", "_">>

\* the value of a symbol, -1 for a character outside the alphabet
SymbolValue(c) ==
    IF \E k \in 1..64 : Base64UrlAlphabet[k] = c
    THEN (CHOOSE k \in 1..64 : Base64UrlAlphabet[k] = c) - 1
    ELSE -1

\* the result of a decoding: the bytes, or the kind of the DecodeError
DecodeOk(out) == [ok |-> TRUE, out |-> out, err |-> ""]

DecodeErr(e) == [ok |-> FALSE, out |-> <<>>, err |-> e]

\* the byte at index j (from 0) of the symbol values v: three bytes of
\* every four symbols
DecodedByte(v, j) ==
    CASE j % 3 = 0 -> v[4 * (j \div 3) + 1] * 4 + v[4 * (j \div 3) + 2] \div 16
      [] j % 3 = 1 -> (v[4 * (j \div 3) + 2] % 16) * 16 + v[4 * (j \div 3) + 3] \div 4
      [] j % 3 = 2 -> (v[4 * (j \div 3) + 3] % 4) * 64 + v[4 * (j \div 3) + 4]

\* the bits of the last symbol that belong to no byte
TrailingBits(v) ==
    CASE Len(v) % 4 = 2 -> v[Len(v)] % 16
      [] Len(v) % 4 = 3 -> v[Len(v)] % 4
      [] OTHER -> 0

\* decoding of a text without padding
DecodeNoPad(s) ==
    LET v == [j \in 1..Len(s) |-> SymbolValue(s[j])]
    IN  IF \E j \in 1..Len(s) : v[j] < 0 THEN DecodeErr("InvalidByte")
        ELSE IF Len(s) % 4 = 1 THEN DecodeErr("InvalidLength")
        ELSE IF TrailingBits(v) # 0 THEN DecodeErr("InvalidLastSymbol")
        ELSE DecodeOk([k \in 1..((Len(s) * 6) \div 8) |-> DecodedByte(v, k - 1)])

\* the text without the one or two = signs that fill it to a multiple of four
WithoutPadding(s) ==
    IF Len(s) >= 4 /\ Len(s) % 4 = 0 /\ s[Len(s)] = "="
    THEN IF s[Len(s) - 1] = "=" THEN SubSeq(s, 1, Len(s) - 2) ELSE SubSeq(s, 1, Len(s) - 1)
    ELSE s

\* how the decoder of the base64 crate treats padding under the
\* configuration URL_SAFE_NO_PAD: the version linked either takes padding
\* or refuses it
PaddingModes == {"Indifferent", "RequireNone"}

\* pchain_types::Base64URL::decode
Base64URLDecode(s, padding_mode) ==
    IF padding_mode = "Indifferent" /\ WithoutPadding(s) # s
    THEN DecodeNoPad(WithoutPadding(s))
    ELSE DecodeNoPad(s)

\* ClientError::InvalidBase64Encoding(identity) as a String
InvalidBase64Encoding(identity) ==
    <<"P", "r", "o", "v", "i", "d", "e", "d", " ">>
      \o identity \o
      <<" ", "h", "a", "s", " ", "i", "n", "v", "a", "l", "i", "d", " ", "b", "a", "s",
        "e", "6", "4", " ", "e", "n", "c", "o", "d", "i", "n", "g">>

\* ClientError::IncorrectBase64urlLength as a String
IncorrectBase64urlLength ==
    <<"I", "n", "c", "o", "r", "r", "e", "c", "t", " ", "l", "e", "n", "g", "t", "h", ".",
      " ", "C", "o", "r", "r", "e", "c", "t", " ", "l", "e", "n", "g", "t", "h", " ", "s",
      "h", "o", "u", "l", "d", " ", "b", "e", " ", "3", "2", " ", "b", "y", "t", "e", "s",
      " ", "l", "o", "n", "g", ".">>

\* a conversion that cuts longer vectors down to 32 bytes
TryInto32Truncating(s) ==
    IF Len(s) >= 32 THEN ROk(SubSeq(s, 1, 32)) ELSE RErr(IncorrectBase64urlLength)

\* Vec<u8>::try_into::<[u8; 32]>, then the error of the length
TryInto32(s) == IF Len(s) = 32 THEN ROk(s) ELSE RErr(IncorrectBase64urlLength)

\* the result of base64url_to_bytes32 on the result of the decoding
OfDecoded(decoded) ==
    IF decoded.ok THEN TryInto32(decoded.out)
    ELSE RErr(InvalidBase64Encoding(<<"s", "t", "r", "i", "n", "g">>))

\* pub fn base64url_to_bytes32(base64url: &str) -> Result<[u8; 32], String>
base64url_to_bytes32(base64url, padding_mode) ==
    OfDecoded(Base64URLDecode(base64url, padding_mode))

\* Base64URL texts of 32 bytes
Bytes32Texts ==
  <<
    <<"A", "A", "E", "C", "A", "w", "Q", "F", "B", "g", "c", "I", "C", "Q", "o", "L", "D",
      "A", "0", "O", "D", "x", "A", "R", "E", "h", "M", "U", "F", "R", "Y", "X", "G", "B",
      "k", "a", "G", "x", "w", "d", "H", "h", "8">>,
    <<"A", "A", "A", "A", "A", "A", "A", "A", "A", "A", "A", "A", "A", "A", "A", "A", "A",
      "A", "A", "A", "A", "A", "A", "A", "A", "A", "A", "A", "A", "A", "A", "A", "A", "A",
      "A", "A", "A", "A", "A", "A", "A", "A", "A">>,
    <<"_", "_", "_", "_", "_", "_", "_", "_", "_", "_", "_", "_", "_", "_", "_", "_", "_",
      "_", "_", "_", "_", "_", "_", "_", "_", "_", "_", "_", "_", "_", "_", "_", "_", "_",
      "_", "_", "_", "_", "_", "_", "_", "_", "8">>,
    <<"-", "_", "8", "-", "P", "j", "4", "-", "P", "j", "4", "-", "P", "j", "4", "-", "P",
      "j", "4", "-", "P", "j", "4", "-", "P", "j", "4", "-", "P", "j", "4", "-", "P", "j",
      "4", "-", "P", "j", "4", "-", "P", "j", "4">>
  >>

\* Base64URL texts of 0, 1, 2, 3, 31, 33, 64 and 30 bytes
OtherLengthTexts ==
  <<
    <<>>,
    <<"A", "A">>,
    <<"A", "A", "A">>,
    <<"A", "A", "A", "A">>,
    <<"A", "A", "E", "C", "A", "w", "Q", "F", "B", "g", "c", "I", "C", "Q", "o", "L", "D",
      "A", "0", "O", "D", "x", "A", "R", "E", "h", "M", "U", "F", "R", "Y", "X", "G", "B",
      "k", "a", "G", "x", "w", "d", "H", "g">>,
    <<"A", "A", "E", "C", "A", "w", "Q", "F", "B", "g", "c", "I", "C", "Q", "o", "L", "D",
      "A", "0", "O", "D", "x", "A", "R", "E", "h", "M", "U", "F", "R", "Y", "X", "G", "B",
      "k", "a", "G", "x", "w", "d", "H", "h", "8", "g">>,
    <<"A", "A", "E", "C", "A", "w", "Q", "F", "B", "g", "c", "I", "C", "Q", "o", "L", "D",
      "A", "0", "O", "D", "x", "A", "R", "E", "h", "M", "U", "F", "R", "Y", "X", "G", "B",
      "k", "a", "G", "x", "w", "d", "H", "h", "8", "g", "I", "S", "I", "j", "J", "C", "U",
      "m", "J", "y", "g", "p", "K", "i", "s", "s", "L", "S", "4", "v", "M", "D", "E", "y",
      "M", "z", "Q", "1", "N", "j", "c", "4", "O", "T", "o", "7", "P", "D", "0", "-", "P",
      "w">>,
    <<"A", "A", "E", "C", "A", "w", "Q", "F", "B", "g", "c", "I", "C", "Q", "o", "L", "D",
      "A", "0", "O", "D", "x", "A", "R", "E", "h", "M", "U", "F", "R", "Y", "X", "G", "B",
      "k", "a", "G", "x", "w", "d">>
  >>

\* texts that are no Base64URL: a length of 4k + 1, the characters + / space = and line
\* feed, bits left over in the last symbol, the standard alphabet
NotBase64UrlTexts ==
  <<
    <<"A">>,
    <<"A", "A", "A", "A", "A", "A", "A", "A", "A", "A", "A", "A", "A", "A", "A", "A", "A",
      "A", "A", "A", "A", "A", "A", "A", "A", "A", "A", "A", "A", "A", "A", "A", "A", "A",
      "A", "A", "A", "A", "A", "A", "A">>,
    <<"A", "A", "A", "A", "A", "A", "A", "A", "A", "A", "A", "A", "A", "A", "A", "A", "A",
      "A", "A", "A", "A", "A", "A", "A", "A", "A", "A", "A", "A", "A", "A", "A", "A", "A",
      "A", "A", "A", "A", "A", "A", "A", "A", "A", "A", "A">>,
    <<"A", "A", "E", "C", "A", "w", "Q", "F", "B", "g", "+", "I", "C", "Q", "o", "L", "D",
      "A", "0", "O", "D", "x", "A", "R", "E", "h", "M", "U", "F", "R", "Y", "X", "G", "B",
      "k", "a", "G", "x", "w", "d", "H", "h", "8">>,
    <<"A", "A", "E", "C", "A", "w", "Q", "F", "B", "g", "/", "I", "C", "Q", "o", "L", "D",
      "A", "0", "O", "D", "x", "A", "R", "E", "h", "M", "U", "F", "R", "Y", "X", "G", "B",
      "k", "a", "G", "x", "w", "d", "H", "h", "8">>,
    <<"A", "A", "E", "C", "A", "w", "Q", "F", "B", "g", " ", "I", "C", "Q", "o", "L", "D",
      "A", "0", "O", "D", "x", "A", "R", "E", "h", "M", "U", "F", "R", "Y", "X", "G", "B",
      "k", "a", "G", "x", "w", "d", "H", "h", "8">>,
    <<"A", "A", "E", "C", "A", "w", "Q", "F", "B", "g", "c", "I", "C", "Q", "o", "L", "D",
      "A", "0", "O", "D", "x", "A", "R", "E", "h", "M", "U", "F", "R", "Y", "X", "G", "B",
      "k", "a", "G", "x", "w", "d", "H", "h", "9">>,
    <<"A", "B">>,
    <<"/", "/", "/", "/", "/", "/", "/", "/", "/", "/", "/", "/", "/", "/", "/", "/", "/",
      "/", "/", "/", "/", "/", "/", "/", "/", "/", "/", "/", "/", "/", "/", "/", "/", "/",
      "/", "/", "/", "/", "/", "/", "/", "/", "8">>,
    <<"!", "!">>,
    <<"A", "A", "E", "C", "A", "w", "Q", "F", "B", "g", "c", "I", "C", "Q", "o", "L", "D",
      "A", "0", "O", "=", "x", "A", "R", "E", "h", "M", "U", "F", "R", "Y", "X", "G", "B",
      "k", "a", "G", "x", "w", "d", "H", "h", "8">>,
    <<"A", "A", "E", "C", "A", "w", "Q", "F", "B", "g", "c", "I", "C", "Q", "o", "L", "D",
      "A", "0", "O", "D", "x", "A", "R", "E", "h", "M", "U", "F", "R", "Y", "X", "G", "B",
      "k", "a", "G", "x", "w", "d", "H", "h", "8", "\n">>,
    <<"A", "A", "B">>
  >>

\* Base64URL texts of 32, 31 and 1 bytes followed by their padding
PaddedTexts ==
  <<
    <<"A", "A", "E", "C", "A", "w", "Q", "F", "B", "g", "c", "I", "C", "Q", "o", "L", "D",
      "A", "0", "O", "D", "x", "A", "R", "E", "h", "M", "U", "F", "R", "Y", "X", "G", "B",
      "k", "a", "G", "x", "w", "d", "H", "h", "8", "=">>,
    <<"A", "A", "E", "C", "A", "w", "Q", "F", "B", "g", "c", "I", "C", "Q", "o", "L", "D",
      "A", "0", "O", "D", "x", "A", "R", "E", "h", "M", "U", "F", "R", "Y", "X", "G", "B",
      "k", "a", "G", "x", "w", "d", "H", "g", "=", "=">>,
    <<"A", "A", "=", "=">>
  >>

Base64UrlTexts ==
    SeqRange(Bytes32Texts) \cup SeqRange(OtherLengthTexts) \cup SeqRange(NotBase64UrlTexts)
      \cup SeqRange(PaddedTexts)

-----------------------------------------------------------------------------
(* error.rs: HttpError *)

\* response_code::status400 and response_code::status500
INPUT_DECODE_FAILURE == 1100

INCORRECT_URL_AND_QUERY_PARAMS == 1102

VIEW_SERVICE_CHANNEL_ERROR == 1405

VIEW_SERVICE_REQUEST_TIMEOUT == 1406

\* a String that the function returns
Returned(message) == [returned |-> TRUE, message |-> message]

\* the thread is aborted by panic! with the message
Panicked(message) == [returned |-> FALSE, message |-> message]

\* the value of decimal digits, counted up to one past the range of i16
RECURSIVE DigitsValue(_)
DigitsValue(d) ==
    IF d = <<>> THEN 0
    ELSE LET n == DigitsValue(SubSeq(d, 1, Len(d) - 1)) * 10 + DigitVal(d[Len(d)])
         IN  IF n > 32769 THEN 32769 ELSE n

\* str::parse::<i16>: an optional sign and decimal digits, nothing around
\* them, the value within -32768..32767
ParseI16(s) ==
    LET d == IF s # <<>> /\ s[1] \in {"+", "-"} THEN Tail(s) ELSE s
        n == IF s # <<>> /\ s[1] = "-" THEN 0 - DigitsValue(d) ELSE DigitsValue(d)
    IN  IF d = <<>> \/ \E j \in 1..Len(d) : ~IsDigit(d[j]) THEN [ok |-> FALSE, val |-> 0]
        ELSE IF n < -32768 \/ n > 32767 THEN [ok |-> FALSE, val |-> 0]
        ELSE [ok |-> TRUE, val |-> n]

\* err as u16
AsU16(n) == n % 65536

\* str::contains
StrContains(s, p) == \E i \in 1..(Len(s) - Len(p) + 1) : SubSeq(s, i, i + Len(p) - 1) = p

ConnectionRefused ==
    <<"C", "o", "n", "n", "e", "c", "t", "i", "o", "n", " ", "r", "e", "f", "u", "s", "e",
      "d">>

\* fn response(error_code: u16) -> HttpErrorResponse
response(error_code) ==
    CASE error_code = INPUT_DECODE_FAILURE -> Returned(
            <<"I", "n", "p", "u", "t", " ", "q", "u", "e", "r", "y", " ", "p", "a", "r",
              "a", "m", "e", "t", "e", "r", " ", "i", "s", " ", "n", "o", "t", " ", "a",
              " ", "p", "c", "h", "a", "i", "n", "_", "t", "y", "p", "e", "s", ":", ":",
              "B", "a", "s", "e", "6", "4", "U", "R", "L", " ", "e", "n", "c", "o", "d",
              "e", "d", " ", "s", "t", "r", "i", "n", "g", ".">>
               )
      [] error_code = INCORRECT_URL_AND_QUERY_PARAMS -> Returned(
            <<"I", "n", "c", "o", "r", "r", "e", "c", "t", " ", "u", "r", "l", " ", "o",
              "r", " ", "q", "u", "e", "r", "y", " ", "p", "a", "r", "a", "m", "e", "t",
              "e", "r", "s", ".">>
               )
      [] error_code = VIEW_SERVICE_CHANNEL_ERROR -> Returned(
            <<"I", "n", "t", "e", "r", "n", "a", "l", " ", "S", "e", "r", "v", "e", "r",
              " ", "E", "r", "r", "o", "r", ".", " ", "S", "e", "r", "v", "e", "r", " ",
              "b", "u", "s", "y", " ", "a", "n", "d", " ", "f", "a", "i", "l", "e", "d",
              " ", "t", "o", " ", "h", "a", "n", "d", "l", "e", " ", "n", "e", "w", " ",
              "r", "e", "q", "u", "e", "s", "t", ".">>
               )
      [] error_code = VIEW_SERVICE_REQUEST_TIMEOUT -> Returned(
            <<"I", "n", "t", "e", "r", "n", "a", "l", " ", "S", "e", "r", "v", "e", "r",
              " ", "E", "r", "r", "o", "r", ".", " ", "R", "e", "q", "u", "e", "s", "t",
              " ", "T", "i", "m", "e", "o", "u", "t">>
               )
      [] OTHER -> Panicked(
            <<"I", "r", "r", "e", "c", "o", "v", "e", "r", "a", "b", "l", "e", " ", "E",
              "r", "r", "o", "r", ".", " ", "U", "n", "k", "n", "o", "w", "n", " ", "e",
              "r", "r", "o", "r", " ", "c", "o", "d", "e", " ", "e", "n", "c", "o", "u",
              "n", "t", "e", "r", "e", "d", ".", " ", "P", "l", "e", "a", "s", "e", " ",
              "p", "o", "s", "t", " ", "a", "n", " ", "i", "s", "s", "u", "e", " ", "o",
              "n", " ", "P", "a", "r", "a", "l", "l", "e", "l", "C", "h", "a", "i", "n",
              " ", "G", "i", "t", "h", "u", "b", " ", "R", "e", "p", "o", "s", "i", "t",
              "o", "r", "y", ".">>
               )

\* pub fn new(error_code: String) -> HttpErrorResponse
HttpErrorNew(error_code) ==
    IF ParseI16(error_code).ok THEN response(AsU16(ParseI16(error_code).val))
    ELSE IF StrContains(error_code, ConnectionRefused)
    THEN Returned(
            <<"C", "o", "n", "n", "e", "c", "t", "i", "o", "n", " ", "r", "e", "f", "u",
              "s", "e", "d", ".", " ", "P", "l", "e", "a", "s", "e", " ", "c", "h", "e",
              "c", "k", " ", "i", "f", " ", "t", "h", "e", " ", "p", "r", "o", "v", "i",
              "d", "e", "r", " ", "i", "s", " ", "l", "i", "v", "e", ".">>
               )
    ELSE Returned(
            <<"U", "n", "k", "n", "o", "w", "n", " ", "e", "r", "r", "o", "r", " ", "o",
              "c", "c", "u", "r", "e", "d", ".", " ">>
                    \o error_code)

\* the texts given to HttpError::new: the four codes, other numbers within and outside i16,
\* texts that are no number, messages of the transport
ErrorCodes ==
  <<
    <<"1", "1", "0", "0">>,
    <<"1", "1", "0", "2">>,
    <<"1", "4", "0", "5">>,
    <<"1", "4", "0", "6">>,
    <<"4", "0", "4">>,
    <<"5", "0", "0">>,
    <<"-", "1">>,
    <<"0">>,
    <<"-", "0">>,
    <<"+", "1", "1", "0", "0">>,
    <<"0", "1", "1", "0", "0">>,
    <<"1", "1", "0", "1">>,
    <<"1", "4", "0", "7">>,
    <<"3", "2", "7", "6", "7">>,
    <<"3", "2", "7", "6", "8">>,
    <<"-", "3", "2", "7", "6", "8">>,
    <<"-", "3", "2", "7", "6", "9">>,
    <<"6", "5", "5", "3", "5">>,
    <<>>,
    <<"a", "b", "c">>,
    <<" ", "4", "0", "4">>,
    <<"4", "0", "4", " ">>,
    <<"4", " ", "0", "4">>,
    <<"0", "x", "4", "4", "C">>,
    <<"1", "1", "0", "0", "\n">>,
    <<"-">>,
    <<"+">>,
    <<"1", ".", "0">>,
    <<"e", "r", "r", "o", "r", " ", "s", "e", "n", "d", "i", "n", "g", " ", "r", "e", "q",
      "u", "e", "s", "t", " ", "f", "o", "r", " ", "u", "r", "l", " ", "(", "h", "t", "t",
      "p", ":", "/", "/", "l", "o", "c", "a", "l", "h", "o", "s", "t", ":", "8", "0", "8",
      "0", "/", "s", "t", "a", "t", "e", ")", ":", " ", "e", "r", "r", "o", "r", " ", "t",
      "r", "y", "i", "n", "g", " ", "t", "o", " ", "c", "o", "n", "n", "e", "c", "t", ":",
      " ", "t", "c", "p", " ", "c", "o", "n", "n", "e", "c", "t", " ", "e", "r", "r", "o",
      "r", ":", " ", "C", "o", "n", "n", "e", "c", "t", "i", "o", "n", " ", "r", "e", "f",
      "u", "s", "e", "d", " ", "(", "o", "s", " ", "e", "r", "r", "o", "r", " ", "1", "1",
      "1", ")">>,
    <<"C", "o", "n", "n", "e", "c", "t", "i", "o", "n", " ", "r", "e", "f", "u", "s", "e",
      "d">>,
    <<"c", "o", "n", "n", "e", "c", "t", "i", "o", "n", " ", "r", "e", "f", "u", "s", "e",
      "d">>,
    <<"U", "n", "e", "x", "p", "e", "c", "t", "e", "d", " ", "l", "e", "n", "g", "t", "h",
      " ", "o", "f", " ", "i", "n", "p", "u", "t">>
  >>

-----------------------------------------------------------------------------
(* The state machine: a call is made and its function applied; the bytes a  *)
(* successful serialize_call_arguments returns are then given back to       *)
(* call_result_to_data_type under the same type name.                       *)

\* no result yet
NoResult == [ok |-> FALSE, out |-> <<>>, err |-> <<>>]

\* no caller of the concurrent model, no client
NoCallers == frames = <<>> /\ dt_no_space_of = <<>> /\ json_val_of = <<>>

NoSession == client = <<>> /\ requests = <<>> /\ outcome = <<>>

Init ==
    /\ NoCallers
    /\ NoSession
    /\ encoded = NoResult
    /\ rendered = NoResult
    /\ call_arguments = NoResult
    /\ \/ /\ pc = "call_serialize"
          /\ buffer = <<>>
          /\ json_text = <<>>
          /\ \E c \in EncodeCalls : type_name = c[1] /\ value_text = c[2]
       \/ /\ pc = "call_convert"
          /\ value_text = <<>>
          /\ json_text = <<>>
          /\ \E c \in DecodeCalls : type_name = c[1] /\ buffer = c[2]
       \/ /\ pc = "call_from_json"
          /\ type_name = <<>>
          /\ value_text = <<>>
          /\ buffer = <<>>
          /\ json_text \in Documents
       \/ /\ pc = "call_base64url"
          /\ type_name = <<>>
          /\ buffer = <<>>
          /\ json_text = <<>>
          /\ value_text \in Base64UrlTexts
       \/ /\ pc = "call_http_error"
          /\ type_name = <<>>
          /\ buffer = <<>>
          /\ json_text = <<>>
          /\ value_text \in SeqRange(ErrorCodes)

SerializeCallArguments ==
    /\ pc = "call_serialize"
    /\ encoded' = serialize_call_arguments(value_text, type_name)
    /\ pc' = "serialized"
    /\ UNCHANGED <<type_name, value_text, buffer, rendered, json_text, call_arguments>>
    /\ UNCHANGED <<callers, session>>

CallResultToDataType ==
    /\ pc = "call_convert"
    /\ rendered' = call_result_to_data_type(buffer, type_name)
    /\ pc' = "converted"
    /\ UNCHANGED <<type_name, value_text, buffer, encoded, json_text, call_arguments>>
    /\ UNCHANGED <<callers, session>>

\* the encoded argument comes back as a call result of the same type
RoundTrip ==
    /\ pc = "serialized"
    /\ encoded.ok
    /\ buffer' = encoded.out
    /\ rendered' = call_result_to_data_type(encoded.out, type_name)
    /\ pc' = "round_trip"
    /\ UNCHANGED <<type_name, value_text, encoded, json_text, call_arguments>>
    /\ UNCHANGED <<callers, session>>

\* the document is read into the list of <<type, value>> pairs
FromJson ==
    /\ pc = "call_from_json"
    /\ call_arguments' = from_json(json_text)
    /\ pc' = "parsed"
    /\ UNCHANGED <<type_name, value_text, buffer, encoded, rendered, json_text>>
    /\ UNCHANGED <<callers, session>>

\* the text is decoded into 32 bytes, by a decoder of either padding mode
Base64urlToBytes32 ==
    /\ pc = "call_base64url"
    /\ \E padding_mode \in PaddingModes :
          encoded' = base64url_to_bytes32(value_text, padding_mode)
    /\ pc' = "decoded32"
    /\ UNCHANGED <<type_name, value_text, buffer, rendered, json_text, call_arguments>>
    /\ UNCHANGED <<callers, session>>

\* the text of an error is turned into the message for the user
HttpErrorNewCalled ==
    /\ pc = "call_http_error"
    /\ rendered' = HttpErrorNew(value_text)
    /\ pc' = "http_error"
    /\ UNCHANGED <<type_name, value_text, buffer, encoded, json_text, call_arguments>>
    /\ UNCHANGED <<callers, session>>

Next ==
    \/ SerializeCallArguments
    \/ CallResultToDataType
    \/ RoundTrip
    \/ FromJson
    \/ Base64urlToBytes32
    \/ HttpErrorNewCalled

Spec == Init /\ [][Next]_vars

-----------------------------------------------------------------------------
(* Concurrent callers of the codec.  The three functions are free functions  *)
(* without statics: the String dt_no_space and the Value json_val are locals *)
(* of a call.  Two threads make calls one after another; a call is entered   *)
(* (its locals are computed from its arguments) and later returns, and the   *)
(* steps of the two threads interleave.                                      *)

Callers == {1, 2}

\* one place for the locals of every call, as a static would be
Static(c) == 0

\* the place of the locals of a call of caller c: the stack frame of the call
Local(c) == c

\* the invocation of serialize_call_args! on the local dt_no_space
SerializeCallArgs(value, dt) ==
    IF FirstMatch(SerializeCallArgsNames, dt) = 0
    THEN RErr(FailToConvertReturnDataToTargetType(InvalidInput, NotSupportedText))
    ELSE TryToVec(SerializeCallArgsTypes[FirstMatch(SerializeCallArgsNames, dt)],
                  FromStr(SerializeCallArgsTypes[FirstMatch(SerializeCallArgsNames, dt)],
                          value))

\* the invocations of convert_to_data_type!, convert_to_vecs! and
\* convert_to_slice! on the local dt_no_space
ConvertToDataType(vec, dt) ==
    IF FirstMatch(ConvertNames, dt) = 0
    THEN RErr(FailToConvertReturnDataToTargetType(InvalidInput, NotSupportedText))
    ELSE FormatData(ConvertTypes[FirstMatch(ConvertNames, dt)],
                    BorshDeserialize(ConvertTypes[FirstMatch(ConvertNames, dt)], vec, 1))

\* the calls the callers make: the function and its two arguments (from_json
\* has one)
SerializeCall(value, data_type) ==
    [fn |-> "serialize_call_arguments", args |-> <<value, data_type>>]

ConvertCall(vec, data_type) == [fn |-> "call_result_to_data_type", args |-> <<vec, data_type>>]

FromJsonCall(json_data) == [fn |-> "from_json", args |-> <<json_data, <<>>>>]

CallerCalls ==
    { SerializeCall(<<"2", "5", "5">>, <<"u", "8">>),
      SerializeCall(<<"t", "r", "u", "e">>, <<"b", "o", "o", "l">>),
      SerializeCall(<<"[", "-", "2", ",", " ", "5", "]">>,
                    <<"V", "e", "c", "<", " ", "i", "3", "2", " ", ">">>),
      SerializeCall(<<"[", "]">>, <<"[", "i", "8", ";", " ", "3", "2", "]">>),
      SerializeCall(<<"n", "u", "l", "l">>, <<"O", "p", "t", "i", "o", "n", "<", "u", "8", ">">>),
      ConvertCall(<<255>>, <<"u", "8">>),
      ConvertCall(<<1, 0, 0, 0, 7>>, <<"V", "e", "c", "<", " ", "u", "8", ">">>),
      ConvertCall(<<2, 0, 0, 0, 104, 105>>, <<"S", "t", "r", "i", "n", "g">>),
      ConvertCall(<<0>>, <<"O", "p", "t", "i", "o", "n", "<", "u", "8", ">">>),
      FromJsonCall(ArgumentsDocument(<<ElementTexts[1], ElementTexts[5]>>)),
      FromJsonCall(InvalidJsonTexts[3]),
      FromJsonCall(NoArgumentsTexts[1]) }

\* the locals of a call are dropped when it returns
NoDocument == End(<<>>, DeserializeAny(<<>>, 1))

Idle == [at |-> "idle", call |-> FromJsonCall(<<>>), result |-> NoResult]

CallersInit ==
    /\ pc = "callers"
    /\ type_name = <<>>
    /\ value_text = <<>>
    /\ buffer = <<>>
    /\ encoded = NoResult
    /\ rendered = NoResult
    /\ json_text = <<>>
    /\ call_arguments = NoResult
    /\ NoSession
    /\ frames = [c \in Callers |-> Idle]
    /\ dt_no_space_of = [s \in Callers \cup {0} |-> <<>>]
    /\ json_val_of = [s \in Callers \cup {0} |-> NoDocument]

\* caller c enters serialize_call_arguments: dt_no_space is computed
EnterSerialize(c) ==
    /\ frames[c].at # "entered"
    /\ \E call \in CallerCalls :
          /\ call.fn = "serialize_call_arguments"
          /\ frames' = [frames EXCEPT ![c] = [at |-> "entered", call |-> call,
                                              result |-> NoResult]]
          /\ dt_no_space_of' =
                [dt_no_space_of EXCEPT ![Local(c)] = SerializeDtNoSpace(call.args[2])]
    /\ UNCHANGED <<codec, json_val_of, session>>

\* the arms are tried on dt_no_space and the call returns, its locals dropped
ReturnSerialize(c) ==
    /\ frames[c].at = "entered"
    /\ frames[c].call.fn = "serialize_call_arguments"
    /\ frames' = [frames EXCEPT ![c].at = "returned",
                                ![c].result = SerializeCallArgs(frames[c].call.args[1],
                                                                dt_no_space_of[Local(c)])]
    /\ dt_no_space_of' = [dt_no_space_of EXCEPT ![Local(c)] = <<>>]
    /\ UNCHANGED <<codec, json_val_of, session>>

\* caller c enters call_result_to_data_type: dt_no_space is computed
EnterConvert(c) ==
    /\ frames[c].at # "entered"
    /\ \E call \in CallerCalls :
          /\ call.fn = "call_result_to_data_type"
          /\ frames' = [frames EXCEPT ![c] = [at |-> "entered", call |-> call,
                                              result |-> NoResult]]
          /\ dt_no_space_of' =
                [dt_no_space_of EXCEPT ![Local(c)] = ConvertDtNoSpace(call.args[2])]
    /\ UNCHANGED <<codec, json_val_of, session>>

\* the arms are tried on dt_no_space and the call returns
ReturnConvert(c) ==
    /\ frames[c].at = "entered"
    /\ frames[c].call.fn = "call_result_to_data_type"
    /\ frames' = [frames EXCEPT ![c].at = "returned",
                                ![c].result = ConvertToDataType(frames[c].call.args[1],
                                                                dt_no_space_of[Local(c)])]
    /\ dt_no_space_of' = [dt_no_space_of EXCEPT ![Local(c)] = <<>>]
    /\ UNCHANGED <<codec, json_val_of, session>>

\* caller c enters from_json: the document is read into json_val
EnterFromJson(c) ==
    /\ frames[c].at # "entered"
    /\ \E call \in CallerCalls :
          /\ call.fn = "from_json"
          /\ frames' = [frames EXCEPT ![c] = [at |-> "entered", call |-> call,
                                              result |-> NoResult]]
          /\ json_val_of' =
                [json_val_of EXCEPT ![Local(c)] =
                    End(call.args[1], DeserializeAny(call.args[1], 1))]
    /\ UNCHANGED <<codec, dt_no_space_of, session>>

\* the pairs are collected from json_val and the call returns
ReturnFromJson(c) ==
    /\ frames[c].at = "entered"
    /\ frames[c].call.fn = "from_json"
    /\ frames' = [frames EXCEPT ![c].at = "returned",
                                ![c].result = OfDocument(json_val_of[Local(c)])]
    /\ json_val_of' = [json_val_of EXCEPT ![Local(c)] = NoDocument]
    /\ UNCHANGED <<codec, dt_no_space_of, session>>

CallersNext ==
    \E c \in Callers :
        \/ EnterSerialize(c)
        \/ ReturnSerialize(c)
        \/ EnterConvert(c)
        \/ ReturnConvert(c)
        \/ EnterFromJson(c)
        \/ ReturnFromJson(c)

CallersSpec == CallersInit /\ [][CallersNext]_vars

-----------------------------------------------------------------------------
(* networking.rs, client.rs, client/v1.rs, client/v2.rs: a client on its     *)
(* transport.  The transport (reqwest) and the wire schema (pchain_types)    *)
(* are outside the repository: what the transport does with a request, and   *)
(* whether the bytes of a reply deserialize, are choices of the environment. *)

Method(type, name, verb, path) == [type |-> type, name |-> name, verb |-> verb, path |-> path]

\* the RPC methods of Client (client.rs), ClientV1 (client/v1.rs) and ClientV2
\* (client/v2.rs): the type, the method, the verb and the endpoint path
Methods ==
  {
    Method("Client", "validator_sets", "POST",
        <<"v", "a", "l", "i", "d", "a", "t", "o", "r", "_", "s", "e", "t", "s">>),
    Method("Client", "pools", "POST",
        <<"p", "o", "o", "l", "s">>),
    Method("Client", "stakes", "POST",
        <<"s", "t", "a", "k", "e", "s">>),
    Method("Client", "deposits", "POST",
        <<"d", "e", "p", "o", "s", "i", "t", "s">>),
    Method("Client", "block_height_by_hash", "POST",
        <<"b", "l", "o", "c", "k", "_", "h", "e", "i", "g", "h", "t", "_", "b", "y", "_",
          "h", "a", "s", "h">>),
    Method("Client", "block_hash_by_height", "POST",
        <<"b", "l", "o", "c", "k", "_", "h", "a", "s", "h", "_", "b", "y", "_", "h", "e",
          "i", "g", "h", "t">>),
    Method("Client", "highest_committed_block", "GET",
        <<"h", "i", "g", "h", "e", "s", "t", "_", "c", "o", "m", "m", "i", "t", "t", "e",
          "d", "_", "b", "l", "o", "c", "k">>),
    Method("Client", "transaction_position", "POST",
        <<"t", "r", "a", "n", "s", "a", "c", "t", "i", "o", "n", "_", "p", "o", "s", "i",
          "t", "i", "o", "n">>),
    Method("Client", "submit_transaction_v1", "POST",
        <<"s", "u", "b", "m", "i", "t", "_", "t", "r", "a", "n", "s", "a", "c", "t", "i",
          "o", "n">>),
    Method("Client", "submit_transaction_v2", "POST",
        <<"s", "u", "b", "m", "i", "t", "_", "t", "r", "a", "n", "s", "a", "c", "t", "i",
          "o", "n", "/", "v", "2">>),
    Method("Client", "state_v1", "POST",
        <<"s", "t", "a", "t", "e">>),
    Method("Client", "state_v2", "POST",
        <<"s", "t", "a", "t", "e", "/", "v", "2">>),
    Method("Client", "view_v1", "POST",
        <<"v", "i", "e", "w">>),
    Method("Client", "view_v2", "POST",
        <<"v", "i", "e", "w", "/", "v", "2">>),
    Method("Client", "block_v1", "POST",
        <<"b", "l", "o", "c", "k">>),
    Method("Client", "block_v2", "POST",
        <<"b", "l", "o", "c", "k", "/", "v", "2">>),
    Method("Client", "block_header_v1", "POST",
        <<"b", "l", "o", "c", "k", "_", "h", "e", "a", "d", "e", "r">>),
    Method("Client", "block_header_v2", "POST",
        <<"b", "l", "o", "c", "k", "_", "h", "e", "a", "d", "e", "r", "/", "v", "2">>),
    Method("Client", "transaction_v1", "POST",
        <<"t", "r", "a", "n", "s", "a", "c", "t", "i", "o", "n">>),
    Method("Client", "transaction_v2", "POST",
        <<"t", "r", "a", "n", "s", "a", "c", "t", "i", "o", "n", "/", "v", "2">>),
    Method("Client", "receipt_v1", "POST",
        <<"r", "e", "c", "e", "i", "p", "t">>),
    Method("Client", "receipt_v2", "POST",
        <<"r", "e", "c", "e", "i", "p", "t", "/", "v", "2">>),
    Method("ClientV1", "submit_transaction", "POST",
        <<"s", "u", "b", "m", "i", "t", "_", "t", "r", "a", "n", "s", "a", "c", "t", "i",
          "o", "n">>),
    Method("ClientV1", "state", "POST",
        <<"s", "t", "a", "t", "e">>),
    Method("ClientV1", "view", "POST",
        <<"v", "i", "e", "w">>),
    Method("ClientV1", "validator_sets", "POST",
        <<"v", "a", "l", "i", "d", "a", "t", "o", "r", "_", "s", "e", "t", "s">>),
    Method("ClientV1", "pools", "POST",
        <<"p", "o", "o", "l", "s">>),
    Method("ClientV1", "stakes", "POST",
        <<"s", "t", "a", "k", "e", "s">>),
    Method("ClientV1", "deposits", "POST",
        <<"d", "e", "p", "o", "s", "i", "t", "s">>),
    Method("ClientV1", "block", "POST",
        <<"b", "l", "o", "c", "k">>),
    Method("ClientV1", "block_header", "POST",
        <<"b", "l", "o", "c", "k", "_", "h", "e", "a", "d", "e", "r">>),
    Method("ClientV1", "block_height_by_hash", "POST",
        <<"b", "l", "o", "c", "k", "_", "h", "e", "i", "g", "h", "t", "_", "b", "y", "_",
          "h", "a", "s", "h">>),
    Method("ClientV1", "block_hash_by_height", "POST",
        <<"b", "l", "o", "c", "k", "_", "h", "a", "s", "h", "_", "b", "y", "_", "h", "e",
          "i", "g", "h", "t">>),
    Method("ClientV1", "highest_committed_block", "GET",
        <<"h", "i", "g", "h", "e", "s", "t", "_", "c", "o", "m", "m", "i", "t", "t", "e",
          "d", "_", "b", "l", "o", "c", "k">>),
    Method("ClientV1", "transaction", "POST",
        <<"t", "r", "a", "n", "s", "a", "c", "t", "i", "o", "n">>),
    Method("ClientV1", "receipt", "POST",
        <<"r", "e", "c", "e", "i", "p", "t">>),
    Method("ClientV1", "transaction_position", "POST",
        <<"t", "r", "a", "n", "s", "a", "c", "t", "i", "o", "n", "_", "p", "o", "s", "i",
          "t", "i", "o", "n">>),
    Method("ClientV2", "submit_transaction", "POST",
        <<"s", "u", "b", "m", "i", "t", "_", "t", "r", "a", "n", "s", "a", "c", "t", "i",
          "o", "n", "/", "v", "2">>),
    Method("ClientV2", "state", "POST",
        <<"s", "t", "a", "t", "e", "/", "v", "2">>),
    Method("ClientV2", "view", "POST",
        <<"v", "i", "e", "w", "/", "v", "2">>),
    Method("ClientV2", "validator_sets", "POST",
        <<"v", "a", "l", "i", "d", "a", "t", "o", "r", "_", "s", "e", "t", "s">>),
    Method("ClientV2", "pools", "POST",
        <<"p", "o", "o", "l", "s">>),
    Method("ClientV2", "stakes", "POST",
        <<"s", "t", "a", "k", "e", "s">>),
    Method("ClientV2", "deposits", "POST",
        <<"d", "e", "p", "o", "s", "i", "t", "s">>),
    Method("ClientV2", "block", "POST",
        <<"b", "l", "o", "c", "k", "/", "v", "2">>),
    Method("ClientV2", "block_header", "POST",
        <<"b", "l", "o", "c", "k", "_", "h", "e", "a", "d", "e", "r", "/", "v", "2">>),
    Method("ClientV2", "block_height_by_hash", "POST",
        <<"b", "l", "o", "c", "k", "_", "h", "e", "i", "g", "h", "t", "_", "b", "y", "_",
          "h", "a", "s", "h">>),
    Method("ClientV2", "block_hash_by_height", "POST",
        <<"b", "l", "o", "c", "k", "_", "h", "a", "s", "h", "_", "b", "y", "_", "h", "e",
          "i", "g", "h", "t">>),
    Method("ClientV2", "highest_committed_block", "GET",
        <<"h", "i", "g", "h", "e", "s", "t", "_", "c", "o", "m", "m", "i", "t", "t", "e",
          "d", "_", "b", "l", "o", "c", "k">>),
    Method("ClientV2", "transaction", "POST",
        <<"t", "r", "a", "n", "s", "a", "c", "t", "i", "o", "n", "/", "v", "2">>),
    Method("ClientV2", "receipt", "POST",
        <<"r", "e", "c", "e", "i", "p", "t", "/", "v", "2">>),
    Method("ClientV2", "transaction_position", "POST",
        <<"t", "r", "a", "n", "s", "a", "c", "t", "i", "o", "n", "_", "p", "o", "s", "i",
          "t", "i", "o", "n">>),
    Method("ClientV2", "subscribe_to_transaction_events", "POST",
        <<"s", "u", "b", "s", "c", "r", "i", "b", "e", "_", "t", "o", "_", "t", "r", "a",
          "n", "s", "a", "c", "t", "i", "o", "n", "_", "e", "v", "e", "n", "t", "s">>)
  }

ClientTypes == {"Client", "ClientV1", "ClientV2"}

\* base URLs given to new and to set_provider
Urls ==
  {
    <<"h", "t", "t", "p", "s", ":", "/", "/", "r", "p", "c", "_", "b", "a", "s", "e", "_",
      "u", "r", "l", ".", "x", "y", "z">>,
    <<"h", "t", "t", "p", ":", "/", "/", "l", "o", "c", "a", "l", "h", "o", "s", "t", ":",
      "8", "0", "8", "0", "/">>
  }

\* a base URL given to set_provider only
MovedUrl ==
    <<"h", "t", "t", "p", "s", ":", "/", "/", "m", "o", "v", "e", "d", ".", "x", "y", "z">>

\* e.to_string() of a reqwest::Error
ConnectError ==
    <<"e", "r", "r", "o", "r", " ", "s", "e", "n", "d", "i", "n", "g", " ", "r", "e", "q",
      "u", "e", "s", "t", ":", " ", "e", "r", "r", "o", "r", " ", "t", "r", "y", "i", "n",
      "g", " ", "t", "o", " ", "c", "o", "n", "n", "e", "c", "t", ":", " ", "t", "c", "p",
      " ", "c", "o", "n", "n", "e", "c", "t", " ", "e", "r", "r", "o", "r", ":", " ", "C",
      "o", "n", "n", "e", "c", "t", "i", "o", "n", " ", "r", "e", "f", "u", "s", "e", "d",
      " ", "(", "o", "s", " ", "e", "r", "r", "o", "r", " ", "1", "1", "1", ")">>

BodyError ==
    <<"e", "r", "r", "o", "r", " ", "d", "e", "c", "o", "d", "i", "n", "g", " ", "r", "e",
      "s", "p", "o", "n", "s", "e", " ", "b", "o", "d", "y", ":", " ", "o", "p", "e", "r",
      "a", "t", "i", "o", "n", " ", "t", "i", "m", "e", "d", " ", "o", "u", "t">>

\* e.to_string() of the std::io::Error of Deserializable::deserialize
DeserializeError ==
    <<"U", "n", "e", "x", "p", "e", "c", "t", "e", "d", " ", "l", "e", "n", "g", "t", "h",
      " ", "o", "f", " ", "i", "n", "p", "u", "t">>

\* what the transport does with a request: send() fails, or a response
\* arrives with a status and a body, whose reading may fail
SendFailed(error) == [sent |-> FALSE, status |-> 0, body |-> <<>>, error |-> error]

Response(status, body) == [sent |-> TRUE, status |-> status, body |-> body, error |-> <<>>]

BrokenBody(status, error) == [sent |-> TRUE, status |-> status, body |-> <<>>, error |-> error]

\* the bodies are ASCII: 1100, 1405, not found, and four bytes of a reply
Exchanges ==
    { SendFailed(ConnectError),
      Response(200, <<1, 0, 0, 0>>),
      Response(200, <<>>),
      BrokenBody(200, BodyError),
      Response(201, <<1, 0, 0, 0>>),
      Response(204, <<>>),
      Response(404, <<110, 111, 116, 32, 102, 111, 117, 110, 100>>),
      Response(400, <<49, 49, 48, 48>>),
      Response(500, <<49, 52, 48, 53>>),
      BrokenBody(500, BodyError) }

\* Response::text on an ASCII body
TextOf(body) == [j \in 1..Len(body) |-> CharOf(body[j])]

\* a URL made of the provider and the path with nothing in between
UrlWithoutSlash(provider, request_url) == provider \o request_url

\* format!("{}/{}", &self.provider, request_url)
Url(provider, request_url) == provider \o <<"/">> \o request_url

\* a transport that sends the request again after a failure
SentTwiceOnFailure(verb, url, body, exchange) ==
    IF exchange.sent /\ exchange.status = 200 /\ exchange.error = <<>>
    THEN <<[verb |-> verb, url |-> url, body |-> body, exchange |-> exchange]>>
    ELSE <<[verb |-> verb, url |-> url, body |-> body, exchange |-> exchange],
           [verb |-> verb, url |-> url, body |-> body, exchange |-> exchange]>>

\* post_request / get_request: the requests handed to the transport, with
\* what the transport did
Sent(verb, url, body, exchange) ==
    <<[verb |-> verb, url |-> url, body |-> body, exchange |-> exchange]>>

\* a helper that takes every 2xx status for success
ResponseOfAny2xx(exchange) ==
    IF ~exchange.sent THEN RErr(exchange.error)
    ELSE IF exchange.error # <<>> THEN RErr(exchange.error)
    ELSE IF exchange.status \in 200..299 THEN ROk(exchange.body)
    ELSE RErr(TextOf(exchange.body))

\* the rest of post_response and of get_response: the error of send(), the
\* bytes under status 200, the text under any other status
ResponseOf(exchange) ==
    IF ~exchange.sent THEN RErr(exchange.error)
    ELSE IF exchange.error # <<>> THEN RErr(exchange.error)
    ELSE IF exchange.status = 200 THEN ROk(exchange.body)
    ELSE RErr(TextOf(exchange.body))

\* crate::error::new, the function every method maps its errors with: the
\* HttpErrorResponse made of the text
ErrorNew(error_code) == [http_error_response |-> error_code]

\* Request::serialize(request) and Response::deserialize(&raw_bytes)
Serialized(request) == [serialized |-> request]

Deserialized(raw_bytes) == [deserialized |-> raw_bytes]

\* the body of an RPC method after its request: the mapped error of the
\* transport, the mapped error of deserialize, or the response
MethodResult(raw_bytes, decodes) ==
    IF ~raw_bytes.ok THEN RErr(ErrorNew(raw_bytes.err))
    ELSE IF ~decodes THEN RErr(ErrorNew(DeserializeError))
    ELSE ROk(Deserialized(raw_bytes.out))

\* a call that has been made: its name, its argument and what it returned
Outcome(call, arg, result) == [call |-> call, arg |-> arg, result |-> result]

\* Client::new, ClientV1::new, ClientV2::new
NetInit ==
    /\ pc = "session"
    /\ type_name = <<>>
    /\ value_text = <<>>
    /\ buffer = <<>>
    /\ encoded = NoResult
    /\ rendered = NoResult
    /\ json_text = <<>>
    /\ call_arguments = NoResult
    /\ NoCallers
    /\ \E type \in ClientTypes, rpc_base_url \in Urls :
          /\ client = [type |-> type, provider |-> rpc_base_url]
          /\ outcome = Outcome("new", rpc_base_url, <<>>)
    /\ requests = <<>>

\* fn set_provider(&mut self, rpc_base_url: &str)
SetProvider ==
    /\ \E rpc_base_url \in Urls \cup {MovedUrl} :
          /\ client' = [client EXCEPT !.provider = rpc_base_url]
          /\ outcome' = Outcome("set_provider", rpc_base_url, <<>>)
    /\ requests' = <<>>
    /\ UNCHANGED <<codec, callers>>

\* fn get_provider(&self) -> String
GetProvider ==
    /\ outcome' = Outcome("get_provider", <<>>, client.provider)
    /\ requests' = <<>>
    /\ UNCHANGED <<codec, callers, client>>

\* async fn is_provider_up(&self) -> bool
IsProviderUp ==
    /\ \E exchange \in Exchanges :
          /\ requests' = Sent("GET", Url(client.provider, <<>>), <<>>, exchange)
          /\ outcome' = Outcome("is_provider_up", <<>>, ResponseOf(exchange).ok)
    /\ UNCHANGED <<codec, callers, client>>

\* Networking::post_response(request_url, data)
PostResponse ==
    /\ \E m \in Methods, data \in {<<>>, <<1, 0, 0, 0>>}, exchange \in Exchanges :
          /\ m.type = client.type
          /\ m.verb = "POST"
          /\ requests' = Sent("POST", Url(client.provider, m.path), data, exchange)
          /\ outcome' = Outcome("post_response", m.path, ResponseOf(exchange))
    /\ UNCHANGED <<codec, callers, client>>

\* Networking::get_response(request_url)
GetResponse ==
    /\ \E m \in Methods, exchange \in Exchanges :
          /\ m.type = client.type
          /\ m.verb = "GET"
          /\ requests' = Sent("GET", Url(client.provider, m.path), <<>>, exchange)
          /\ outcome' = Outcome("get_response", m.path, ResponseOf(exchange))
    /\ UNCHANGED <<codec, callers, client>>

\* an RPC method of the client: the request is serialized and posted (or the
\* path is fetched), and the bytes of the reply are deserialized
RpcMethod ==
    /\ \E m \in Methods, exchange \in Exchanges, decodes \in BOOLEAN :
          /\ m.type = client.type
          /\ decodes => ResponseOf(exchange).ok
          /\ requests' = Sent(m.verb, Url(client.provider, m.path),
                              IF m.verb = "POST" THEN Serialized(m.name) ELSE <<>>,
                              exchange)
          /\ outcome' = Outcome(m.name, Serialized(m.name),
                                MethodResult(ResponseOf(exchange), decodes))
    /\ UNCHANGED <<codec, callers, client>>

NetNext ==
    \/ SetProvider
    \/ GetProvider
    \/ IsProviderUp
    \/ PostResponse
    \/ GetResponse
    \/ RpcMethod

NetSpec == NetInit /\ [][NetNext]_vars

-----------------------------------------------------------------------------
(* Properties *)

NoSpaces(s) == SelectSeq(s, LAMBDA c : c # " ")

NoWhitespace(s) == SelectSeq(s, LAMBDA c : c \notin {" ", "\t", "\n", "\r"})

\* the twelve primitive type names
PrimitiveNames ==
  {
    <<"i", "8">>,
    <<"i", "1", "6">>,
    <<"i", "3", "2">>,
    <<"i", "6", "4">>,
    <<"i", "1", "2", "8">>,
    <<"u", "8">>,
    <<"u", "1", "6">>,
    <<"u", "3", "2">>,
    <<"u", "6", "4">>,
    <<"u", "1", "2", "8">>,
    <<"b", "o", "o", "l">>,
    <<"S", "t", "r", "i", "n", "g">>
  }

VecName(n) == <<"V", "e", "c", "<">> \o n \o <<">">>
OptionName(n) == <<"O", "p", "t", "i", "o", "n", "<">> \o n \o <<">">>

Bytes32Name == <<"[", "u", "8", ";", "3", "2", "]">>
Bytes64Name == <<"[", "u", "8", ";", "6", "4", "]">>

\* the type names the specification lists for the encoder
SupportedTypeNames ==
    PrimitiveNames
      \cup {VecName(n) : n \in PrimitiveNames}
      \cup {OptionName(n) : n \in PrimitiveNames}
      \cup {VecName(VecName(n)) : n \in PrimitiveNames}
      \cup {VecName(OptionName(n)) : n \in PrimitiveNames}
      \cup {OptionName(VecName(n)) : n \in PrimitiveNames}
      \cup {Bytes32Name, Bytes64Name}

\* the type names the decoder documents
DecodableTypeNames ==
    PrimitiveNames \cup {VecName(n) : n \in PrimitiveNames} \cup {Bytes32Name, Bytes64Name}

\* the text returned for a type name outside the table
UnsupportedTypeError ==
    <<"F", "a", "i", "l", " ", "t", "o", " ", "c", "o", "n", "v", "e", "r", "t", " ", "t",
      "o", " ", "t", "a", "r", "g", "e", "t", " ", "d", "a", "t", "a", " ", "t", "y", "p",
      "e", ".", " ", "C", "u", "s", "t", "o", "m", " ", "{", " ", "k", "i", "n", "d", ":",
      " ", "I", "n", "v", "a", "l", "i", "d", "I", "n", "p", "u", "t", ",", " ", "e", "r",
      "r", "o", "r", ":", " ", "\"", "P", "r", "o", "v", "i", "d", "e", "d", " ", "d", "a",
      "t", "a", " ", "t", "y", "p", "e", "s", " ", "i", "s", " ", "n", "o", "t", " ", "s",
      "u", "p", "p", "o", "r", "t", "e", "d", "\"", " ", "}">>

SerializeErrorPrefix ==
    <<"F", "a", "i", "l", " ", "t", "o", " ", "s", "e", "r", "i", "a", "l", "i", "z", "e",
      " ", "c", "a", "l", "l", " ", "a", "r", "g", "u", "m", "e", "n", "t", ".", " ">>

IsPrefix(p, s) == Len(p) <= Len(s) /\ SubSeq(s, 1, Len(p)) = p

\* p occurs in s
Contains(s, p) == \E i \in 1..(Len(s) - Len(p) + 1) : SubSeq(s, i, i + Len(p) - 1) = p

\* the written names of the types of the table, in its order
WrittenNameTable ==
    [j \in 1..Len(SerializeCallArgsTypes) |-> WrittenName(SerializeCallArgsTypes[j])]

\* the index pairs <<j, h>> of the sample values the state is a call on:
\* type j of the table under its written name, and its sample h as JSON text
SamplesCalled ==
    LET n == NoSpaces(type_name)
    IN  UNION { {<<j, h>> : h \in {h \in 1..Len(Samples(SerializeCallArgsTypes[j])) :
                       value_text = JsonOf(SerializeCallArgsTypes[j],
                                           Samples(SerializeCallArgsTypes[j])[h])}}
                : j \in {j \in 1..Len(WrittenNameTable) : WrittenNameTable[j] = n} }

SampleType(x) == SerializeCallArgsTypes[x[1]]
SampleValue(x) == Samples(SampleType(x))[x[2]]

\* the types call_result_to_data_type has an arm for
Decodable(t) ==
    \/ t.k \in {"int", "bool", "String", "Array"}
    \/ t.k = "Vec" /\ t.of[1].k \in {"int", "bool", "String"}

\* C1 as stated: for every supported type name T and every value v of T,
\* serialize_call_arguments(json(v), T) succeeds and call_result_to_data_type
\* of its bytes under T succeeds and equals the debug rendering of v.
RoundTripEverySupportedType ==
    pc \in {"serialized", "round_trip"} =>
        \A x \in SamplesCalled :
            /\ pc = "serialized" => encoded.ok
            /\ pc = "round_trip" =>
                   rendered = ROk(DebugFmt(SampleType(x), SampleValue(x)))

\* C1 as amended: the round trip holds for every primitive, Vec<primitive>,
\* [u8;32] and [u8;64]; for Option<primitive>, Vec<Vec<primitive>>,
\* Vec<Option<primitive>> and Option<Vec<primitive>> the encoding succeeds and
\* call_result_to_data_type of its bytes returns the unsupported-type error.
RoundTripDecodableTypes ==
    pc \in {"serialized", "round_trip"} =>
        \A x \in SamplesCalled :
            /\ pc = "serialized" => encoded.ok
            /\ pc = "round_trip" =>
                   IF Decodable(SampleType(x))
                   THEN rendered = ROk(DebugFmt(SampleType(x), SampleValue(x)))
                   ELSE rendered = RErr(UnsupportedTypeError)

\* a vector of strings with quotes and a line feed in them has come back
RoundTripWitness ==
    /\ pc = "round_trip"
    /\ NoSpaces(type_name) = VecName(<<"S", "t", "r", "i", "n", "g">>)
    /\ rendered.ok
    /\ Contains(rendered.out, <<"\\", "\"">>)
    /\ \E x \in SamplesCalled : Len(SampleValue(x)) >= 2

-----------------------------------------------------------------------------
\* C2: serialize_call_arguments accepts a type name exactly when the name, its
\* spaces removed, is one of the supported names; every other name is
\* rejected with the unsupported-type error.
EncoderAcceptsExactlySupportedNames ==
    pc = "serialized" =>
        ((encoded # RErr(UnsupportedTypeError)) <=> (NoSpaces(type_name) \in SupportedTypeNames))

-----------------------------------------------------------------------------
(* Integer literals and the ranges of the integer types, stated apart from  *)
(* the tables of the parser                                                 *)

IntegerNames == {n \in PrimitiveNames : n[1] \in {"i", "u"}}

NameSigned(n) == n[1] = "i"

NameWidth(n) ==
    CASE Tail(n) = <<"8">> -> 8
      [] Tail(n) = <<"1", "6">> -> 16
      [] Tail(n) = <<"3", "2">> -> 32
      [] Tail(n) = <<"6", "4">> -> 64
      [] Tail(n) = <<"1", "2", "8">> -> 128

\* a JSON integer literal: an optional minus sign, then decimal digits with a
\* leading zero only when it is the single digit
IsIntegerLiteral(s) ==
    LET d == IF s # <<>> /\ s[1] = "-" THEN Tail(s) ELSE s
    IN  /\ d # <<>>
        /\ \A j \in 1..Len(d) : d[j] \in {"0", "1", "2", "3", "4", "5", "6", "7", "8", "9"}
        /\ (Len(d) > 1 => d[1] # "0")

MinusZero == <<"-", "0">>

LiteralNeg(s) == s[1] = "-"

LiteralMag(s) ==
    LET d == IF s[1] = "-" THEN Tail(s) ELSE s
    IN  [j \in 1..Len(d) |-> DigitVal(d[j])]

\* 256^n in decimal
RECURSIVE Pow256(_)
Pow256(n) == IF n = 0 THEN <<1>> ELSE MagMulAdd(Pow256(n - 1), 256, 0)

\* the integer of the literal s lies in the range of the type named n:
\* 0 <= x < 2^w when unsigned, -2^(w-1) <= x < 2^(w-1) when signed
WithinRange(n, s) ==
    IF IsZeroMag(LiteralMag(s)) THEN TRUE
    ELSE IF ~NameSigned(n)
    THEN ~LiteralNeg(s) /\ MagCmp(LiteralMag(s), Pow256(NameWidth(n) \div 8)) < 0
    ELSE IF LiteralNeg(s)
    THEN MagCmp(LiteralMag(s), MagMulAdd(Pow256(NameWidth(n) \div 8 - 1), 128, 0)) <= 0
    ELSE MagCmp(LiteralMag(s), MagMulAdd(Pow256(NameWidth(n) \div 8 - 1), 128, 0)) < 0

\* serialize_call_arguments has been called on an integer literal under the
\* name of an integer type
IntegerLiteralCalled ==
    /\ pc = "serialized"
    /\ NoSpaces(type_name) \in IntegerNames
    /\ IsIntegerLiteral(value_text)

U8Name == <<"u", "8">>

-----------------------------------------------------------------------------
\* the number a byte string holds, least significant byte first
RECURSIVE LeValue(_)
LeValue(b) == IF b = <<>> THEN <<0>> ELSE MagMulAdd(LeValue(Tail(b)), 256, b[1])

\* every bit of every byte inverted
Inverted(b) == [j \in 1..Len(b) |-> 255 - b[j]]

\* b is the two's complement of -mag (mag > 0): inverting b and adding one
\* gives mag back
IsTwosComplementOf(b, mag) == MagMulAdd(LeValue(Inverted(b)), 1, 1) = mag

\* C10: the encoding of an integer literal under an integer type of width w
\* is w/8 bytes that hold the value of the literal least significant byte
\* first, a negative value in two's complement.
LittleEndianIntegerBytes ==
    IntegerLiteralCalled /\ encoded.ok =>
        /\ Len(encoded.out) = NameWidth(NoSpaces(type_name)) \div 8
        /\ \A j \in 1..Len(encoded.out) : encoded.out[j] \in 0..255
        /\ IF LiteralNeg(value_text) /\ ~IsZeroMag(LiteralMag(value_text))
           THEN /\ encoded.out[Len(encoded.out)] >= 128
                /\ IsTwosComplementOf(encoded.out, LiteralMag(value_text))
           ELSE LeValue(encoded.out) = LiteralMag(value_text)

\* the least value of i64 has been encoded: seven zero bytes, then 128
LittleEndianWitness ==
    /\ pc = "serialized"
    /\ type_name = <<"i", "6", "4">>
    /\ value_text = <<"-">> \o MagText(I64MinMag)
    /\ encoded = ROk(<<0, 0, 0, 0, 0, 0, 0, 128>>)

-----------------------------------------------------------------------------
(* JSON arrays of integer literals, read apart from the parser of the model *)

\* s without the whitespace at its two ends
Trim(s) ==
    LET keep == {i \in 1..Len(s) : s[i] \notin {" ", "\t", "\n", "\r"}}
    IN  IF keep = {} THEN <<>>
        ELSE SubSeq(s, CHOOSE i \in keep : \A j \in keep : i <= j,
                       CHOOSE i \in keep : \A j \in keep : i >= j)

Commas(s) == {i \in 1..Len(s) : s[i] = ","}

\* the position of the k-th comma of s; 0 before the first field and
\* Len(s) + 1 after the last
FieldBound(s, k) ==
    IF k = 0 THEN 0
    ELSE IF k > Cardinality(Commas(s)) THEN Len(s) + 1
    ELSE CHOOSE i \in Commas(s) : Cardinality({j \in Commas(s) : j <= i}) = k

\* the texts between the commas of s
Fields(s) ==
    LET bound == [k \in 0..(Cardinality(Commas(s)) + 1) |-> FieldBound(s, k)]
    IN  [k \in 1..(Cardinality(Commas(s)) + 1) |->
            Trim(SubSeq(s, bound[k - 1] + 1, bound[k] - 1))]

\* the text between the brackets of s
Bracketed(s) == SubSeq(Trim(s), 2, Len(Trim(s)) - 1)

\* the elements of the array s
ArrayItems(s) == IF Trim(Bracketed(s)) = <<>> THEN <<>> ELSE Fields(Bracketed(s))

\* s is a JSON array of integer literals
IsIntegerArray(s) ==
    LET t == Trim(s)
        items == ArrayItems(s)
    IN  /\ Len(t) >= 2
        /\ t[1] = "["
        /\ t[Len(t)] = "]"
        /\ \A k \in 1..Len(items) : IsIntegerLiteral(items[k])

\* the integer literal lit is one of 0..255
IsByteLiteral(lit) == WithinRange(U8Name, lit)

\* the value of a literal of at most three digits
SmallValue(lit) ==
    LET m == LiteralMag(lit)
    IN  CASE Len(m) = 1 -> m[1]
          [] Len(m) = 2 -> 10 * m[1] + m[2]
          [] Len(m) = 3 -> 100 * m[1] + 10 * m[2] + m[3]

\* the length a fixed array type name asks for, 0 for any other name
FixedLength(n) ==
    IF n = Bytes32Name THEN 32 ELSE IF n = Bytes64Name THEN 64 ELSE 0

\* serialize_call_arguments has been called under [u8;32] or [u8;64]
FixedArrayCalled ==
    pc = "serialized" /\ NoSpaces(type_name) \in {Bytes32Name, Bytes64Name}

\* C4: under [u8;32] or [u8;64] the encoding succeeds only for a JSON array
\* of exactly 32 or 64 numbers of 0..255 and is then exactly these bytes,
\* without a length before them; an array of another length or with an
\* element outside 0..255 fails with an error.
FixedArrayExactLength ==
    FixedArrayCalled =>
        LET items == ArrayItems(value_text)
            isArray == IsIntegerArray(value_text)
            n == FixedLength(NoSpaces(type_name))
        IN  /\ encoded.ok =>
                  /\ isArray
                  /\ Len(items) = n
                  /\ \A k \in 1..n : IsByteLiteral(items[k])
                  /\ encoded.out = [k \in 1..n |-> SmallValue(items[k])]
            /\ isArray /\ (Len(items) # n \/ \E k \in 1..Len(items) : ~IsByteLiteral(items[k]))
                  => /\ ~encoded.ok
                     /\ IsPrefix(SerializeErrorPrefix, encoded.err)

\* an array of 32 numbers has been encoded under [u8;32] to 32 bytes, and
\* the state is one of those the model also reaches with 31 and 33 numbers
FixedArrayWitness ==
    /\ FixedArrayCalled
    /\ FixedLength(NoSpaces(type_name)) = 32
    /\ Len(ArrayItems(value_text)) = 32
    /\ encoded.ok
    /\ Len(encoded.out) = 32
    /\ encoded.out[32] = 7

-----------------------------------------------------------------------------
\* spellings of name that differ from it in spaces only: without any, and
\* with up to MaxPad of them before, between and after all its characters
SpaceVariants(name) ==
    {NoSpaces(name)} \cup {Spread(NoSpaces(name), pad) : pad \in 1..MaxPad}

\* C5: spaces in a type name change neither the result of
\* serialize_call_arguments nor the result of call_result_to_data_type:
\* the bytes, the rendering or the error are those of the same call under
\* every spelling of the name that differs in spaces only.
SpacesInsignificant ==
    /\ pc = "serialized" =>
          \A n \in SpaceVariants(type_name) :
              serialize_call_arguments(value_text, n) = encoded
    /\ pc = "converted" =>
          \A n \in SpaceVariants(type_name) :
              call_result_to_data_type(buffer, n) = rendered

\* a value has been encoded under a vector name written with spaces
SpacesWitness ==
    /\ pc = "serialized"
    /\ type_name # NoSpaces(type_name)
    /\ NoSpaces(type_name) = VecName(<<"i", "3", "2">>)
    /\ encoded.ok
    /\ Len(encoded.out) > 4

-----------------------------------------------------------------------------
\* the name holds a tab, a line feed or a carriage return
HasOtherWhitespace(name) == \E j \in 1..Len(name) : name[j] \in {"\t", "\n", "\r"}

\* a supported type name written with whitespace in it
SupportedUpToWhitespace(name) == NoWhitespace(name) \in SupportedTypeNames

\* C6 as stated: a supported type name with whitespace of any kind in it
\* (space, tab, line feed, carriage return) is resolved, by
\* serialize_call_arguments and by call_result_to_data_type, as the name
\* without the whitespace is.
AllWhitespaceStripped ==
    SupportedUpToWhitespace(type_name) =>
        /\ pc = "serialized" =>
              encoded = serialize_call_arguments(value_text, NoWhitespace(type_name))
        /\ pc = "converted" =>
              rendered = call_result_to_data_type(buffer, NoWhitespace(type_name))

\* C6 as amended: only spaces are taken out of a type name; a supported name
\* with spaces in it is resolved as the name without them, and a name that
\* holds a tab, a line feed or a carriage return is refused with the
\* unsupported-type error by both functions.
OnlySpacesStripped ==
    SupportedUpToWhitespace(type_name) =>
        /\ pc = "serialized" =>
              IF HasOtherWhitespace(type_name)
              THEN encoded = RErr(UnsupportedTypeError)
              ELSE encoded = serialize_call_arguments(value_text, NoWhitespace(type_name))
        /\ pc = "converted" =>
              IF HasOtherWhitespace(type_name)
              THEN rendered = RErr(UnsupportedTypeError)
              ELSE rendered = call_result_to_data_type(buffer, NoWhitespace(type_name))

\* bytes that Vec<u8> decodes have been refused under the name with a tab
\* after the angle bracket
TabWitness ==
    /\ pc = "converted"
    /\ type_name = <<"V", "e", "c", "<", "\t", "u", "8", ">">>
    /\ call_result_to_data_type(buffer, NoWhitespace(type_name)).ok
    /\ rendered = RErr(UnsupportedTypeError)

-----------------------------------------------------------------------------
\* the letters and digits of a name, the letters in upper case
LettersOf(name) ==
    ToAsciiUppercase(SelectSeq(name, LAMBDA c :
        \/ c \in {"0", "1", "2", "3", "4", "5", "6", "7", "8", "9"}
        \/ \E k \in 1..26 : c \in {LowerLetters[k], UpperLetters[k]}))

SupportedLetters == {LettersOf(n) : n \in SupportedTypeNames}

\* a name that is no supported name, whitespace apart, and has the letters
\* and digits of one: it differs from it in letter case or punctuation
IsNearMiss(name) ==
    /\ NoWhitespace(name) \notin SupportedTypeNames
    /\ LettersOf(name) \in SupportedLetters

\* C7: a name that differs from a supported name in letter case or in
\* punctuation is refused with the unsupported-type error by
\* serialize_call_arguments and by call_result_to_data_type.
NearMissRejected ==
    IsNearMiss(type_name) =>
        /\ pc = "serialized" => encoded = RErr(UnsupportedTypeError)
        /\ pc = "converted" => rendered = RErr(UnsupportedTypeError)

\* bytes that Vec<u8> decodes have been refused under the name vec<u8>
NearMissWitness ==
    /\ pc = "converted"
    /\ type_name = <<"v", "e", "c", "<", "u", "8", ">">>
    /\ IsNearMiss(type_name)
    /\ call_result_to_data_type(buffer, <<"V", "e", "c", "<", "u", "8", ">">>).ok
    /\ rendered = RErr(UnsupportedTypeError)

-----------------------------------------------------------------------------
\* the call fell through every arm of its dispatch macro
FellThrough ==
    \/ /\ pc = "serialized"
       /\ FirstMatch(SerializeCallArgsNames, SerializeDtNoSpace(type_name)) = 0
    \/ /\ pc = "converted"
       /\ FirstMatch(ConvertNames, ConvertDtNoSpace(type_name)) = 0

\* the error text of the call
ErrorReturned == IF pc = "serialized" THEN encoded.err ELSE rendered.err

\* C8 as stated: the error returned for a type name outside the table
\* carries the name as the caller wrote it.
UnsupportedErrorCarriesName ==
    FellThrough => Contains(ErrorReturned, type_name)

\* C8 as amended: the error returned for a type name outside the table is
\* one fixed text, whatever the name was.
UnsupportedErrorIsFixedText ==
    FellThrough => ErrorReturned = UnsupportedTypeError

\* the name of the test of unsupported types has been refused
UnsupportedWitness ==
    /\ pc = "serialized"
    /\ type_name = VecName(VecName(VecName(<<"b", "o", "o", "l">>)))
    /\ FellThrough
    /\ ~encoded.ok
    /\ encoded.err = UnsupportedTypeError

-----------------------------------------------------------------------------
\* a name in brackets, spaces apart, other than [u8;32] and [u8;64]
IsOtherBracketName(name) ==
    LET n == NoSpaces(name)
    IN  /\ Len(n) >= 2
        /\ n[1] = "["
        /\ n[Len(n)] = "]"
        /\ n \notin {Bytes32Name, Bytes64Name}

\* C9: serialize_call_arguments refuses every name in brackets other than
\* [u8;32] and [u8;64] with the unsupported-type error, whatever the value:
\* other lengths and other element kinds alike.
OtherBracketNamesRejected ==
    pc = "serialized" /\ IsOtherBracketName(type_name) =>
        encoded = RErr(UnsupportedTypeError)

\* an array of 32 numbers has been refused under [i8;32], a name the
\* pattern of the normalisation matches
OtherBracketWitness ==
    /\ pc = "serialized"
    /\ type_name = <<"[", "i", "8", ";", "3", "2", "]">>
    /\ ReIsMatch(type_name)
    /\ serialize_call_arguments(value_text, Bytes32Name).ok
    /\ encoded = RErr(UnsupportedTypeError)

-----------------------------------------------------------------------------
StringName == <<"S", "t", "r", "i", "n", "g">>

\* the JSON string literals of the inputs with the bytes borsh gives the
\* Rust string each of them stands for
StringEncodings ==
    << << <<"\"", "\"">>, <<0, 0, 0, 0>> >>,
       << <<"\"", "s", "s", "s", "\"">>, <<3, 0, 0, 0, 115, 115, 115>> >>,
       << <<"\"", "F", "a", "\\", "\"", "l", "\\", "\"", "s", "e", "\"">>,
          <<7, 0, 0, 0, 70, 97, 34, 108, 34, 115, 101>> >>,
       << <<"\"", "a", "\\", "\\", "b", "\\", "n", "\"">>, <<4, 0, 0, 0, 97, 92, 98, 10>> >>,
       << <<"\"", "c", "a", "f", "U+e9", "\"">>, <<5, 0, 0, 0, 99, 97, 102, 195, 169>> >>,
       << <<"\"", "t", "r", "u", "e", "\"">>, <<4, 0, 0, 0, 116, 114, 117, 101>> >>,
       << <<"\"", "5", "\"">>, <<1, 0, 0, 0, 53>> >> >>

\* the state is a finished call on a name that reads String, spaces apart
StringCalled == pc = "serialized" /\ NoSpaces(type_name) = StringName

\* C11: a JSON string literal encoded against String gives the byte length
\* of the unescaped string as four little-endian bytes and then its UTF-8
\* bytes: each literal of the table gives exactly its bytes, and every
\* successful encoding is four length bytes that count the bytes after them.
StringEncodesLengthAndUtf8 ==
    StringCalled =>
        /\ \A j \in 1..Len(StringEncodings) :
              value_text = StringEncodings[j][1] => encoded = ROk(StringEncodings[j][2])
        /\ encoded.ok =>
              /\ Len(encoded.out) >= 4
              /\ encoded.out[1] + 256 * encoded.out[2] = Len(encoded.out) - 4
              /\ encoded.out[3] = 0
              /\ encoded.out[4] = 0

\* the literal of the test, two escaped quotes in it, has been encoded as
\* seven characters
EscapedStringWitness ==
    /\ StringCalled
    /\ value_text = StringEncodings[3][1]
    /\ encoded.ok
    /\ Len(encoded.out) = 11

-----------------------------------------------------------------------------
\* the encoding serialize_call_arguments gives the value v of the table
\* type t, called on its own
EncodingOf(t, v) == serialize_call_arguments(JsonOf(t, v), WrittenName(t))

\* the samples of a Vec type the state is a finished call on
VecSamplesCalled ==
    IF pc = "serialized" THEN {x \in SamplesCalled : SampleType(x).k = "Vec"} ELSE {}

\* the state is a finished call on an empty array under a Vec name
EmptyArrayCalled ==
    /\ pc = "serialized"
    /\ NoSpaces(type_name) \in {VecName(n) : n \in SupportedTypeNames}
    /\ NoSpaces(type_name) \in SupportedTypeNames
    /\ NoSpaces(value_text) = <<"[", "]">>

\* C12: a JSON array encoded against Vec<T> gives the element count as four
\* little-endian bytes and then the encodings of the elements as T, in the
\* order of the array; Vec<Vec<T>> and Vec<Option<T>> are cases of it; the
\* empty array gives 0,0,0,0.
VecEncodesCountThenElements ==
    /\ \A x \in VecSamplesCalled :
          /\ \A j \in 1..Len(SampleValue(x)) :
                EncodingOf(SampleType(x).of[1], SampleValue(x)[j]).ok
          /\ encoded =
                ROk(<<Len(SampleValue(x)), 0, 0, 0>>
                      \o Concat([j \in 1..Len(SampleValue(x)) |->
                                   EncodingOf(SampleType(x).of[1], SampleValue(x)[j]).out]))
    /\ EmptyArrayCalled => encoded = ROk(<<0, 0, 0, 0>>)
    /\ pc = "serialized" /\ NoSpaces(type_name) = VecName(<<"i", "3", "2">>)
          /\ value_text = <<"[", "-", "2", ",", " ", "-", "3", ",", " ", "5", ",", " ", "6", "]">>
          => encoded = ROk(<<4, 0, 0, 0, 254, 255, 255, 255, 253, 255, 255, 255,
                             5, 0, 0, 0, 6, 0, 0, 0>>)

\* an array of two arrays has been encoded under a Vec<Vec<..>> name
NestedVecWitness ==
    \E x \in VecSamplesCalled :
        /\ SampleType(x).of[1].k = "Vec"
        /\ Len(SampleValue(x)) = 2
        /\ Len(SampleValue(x)[2]) > 0
        /\ encoded.ok

-----------------------------------------------------------------------------
NullText == <<"n", "u", "l", "l">>

OptionNames == {n \in SupportedTypeNames : IsPrefix(<<"O", "p", "t", "i", "o", "n", "<">>, n)}

\* the name inside Option<..>
InnerName(n) == SubSeq(n, 8, Len(n) - 1)

\* the state is a finished call on a name that reads Option<T>, spaces apart
OptionCalled == pc = "serialized" /\ NoSpaces(type_name) \in OptionNames

\* what the encoder gives the value of the state under the name T of Option<T>
AsInner == serialize_call_arguments(value_text, InnerName(NoSpaces(type_name)))

\* the samples of a Vec<Option<T>> type the state is a finished call on
VecOptionSamplesCalled == {x \in VecSamplesCalled : SampleType(x).of[1].k = "Option"}

\* the encoding of one element of a Vec<Option<T>>: absent, or present as T
OptionPiece(t, e) ==
    IF e = <<>> THEN <<0>> ELSE <<1>> \o EncodingOf(t.of[1], e[1]).out

\* arrays with a null among their elements
ArraysWithNull ==
    { <<"[", "n", "u", "l", "l", "]">>,
      <<"[", "n", "u", "l", "l", ",", " ", "7", "]">>,
      <<"[", "\"", "s", "s", "s", "\"", ",", " ", "n", "u", "l", "l", "]">> }

\* C13: under Option<T> null encodes to the byte 0 and a present value to
\* the byte 1 followed by its encoding as T (a value T refuses is refused);
\* the elements of a Vec<Option<T>> encode the same way; null under a
\* supported name other than Option<T> is an error, and so is an array
\* with a null element under Vec<T> and Vec<Vec<T>>.
OptionEncodesTagThenValue ==
    /\ OptionCalled =>
          IF Trim(value_text) = NullText THEN encoded = ROk(<<0>>)
          ELSE IF AsInner.ok THEN encoded = ROk(<<1>> \o AsInner.out)
          ELSE ~encoded.ok
    /\ \A x \in VecOptionSamplesCalled :
          encoded = ROk(<<Len(SampleValue(x)), 0, 0, 0>>
                          \o Concat([j \in 1..Len(SampleValue(x)) |->
                                       OptionPiece(SampleType(x).of[1], SampleValue(x)[j])]))
    /\ pc = "serialized" /\ NoSpaces(type_name) \in SupportedTypeNames \ OptionNames
          /\ Trim(value_text) = NullText
          => ~encoded.ok
    /\ pc = "serialized" /\ value_text \in ArraysWithNull
          /\ NoSpaces(type_name) \in
                {VecName(n) : n \in PrimitiveNames} \cup {VecName(VecName(n)) : n \in PrimitiveNames}
          => ~encoded.ok

\* null has been encoded under an Option name, and the state is one of them
NullUnderOptionWitness ==
    /\ OptionCalled
    /\ type_name = OptionName(VecName(StringName))
    /\ value_text = NullText
    /\ encoded = ROk(<<0>>)

-----------------------------------------------------------------------------
VecOptionStringName == VecName(OptionName(StringName))

SssNullText == <<"[", "\"", "s", "s", "s", "\"", ",", " ", "n", "u", "l", "l", "]">>

\* count 2, then present with the three bytes of sss, then absent
SssNullBytes == <<2, 0, 0, 0, 1, 3, 0, 0, 0, 115, 115, 115, 0>>

\* the state is a call of the scenario: ["sss", null] under Vec<Option<String>>
SssNullCalled ==
    /\ pc \in {"serialized", "round_trip"}
    /\ NoSpaces(type_name) = VecOptionStringName
    /\ value_text = SssNullText

\* C14 as stated: ["sss", null] under Vec<Option<String>> encodes to the
\* thirteen bytes, and decoding them under the same name succeeds.
SssNullEncodesAndDecodes ==
    SssNullCalled =>
        /\ encoded = ROk(SssNullBytes)
        /\ pc = "round_trip" => rendered.ok

\* C14 as amended: ["sss", null] under Vec<Option<String>> encodes to the
\* thirteen bytes, and decoding them under the same name fails with the
\* error of an unsupported type.
SssNullEncodesDecoderRefuses ==
    SssNullCalled =>
        /\ encoded = ROk(SssNullBytes)
        /\ pc = "round_trip" =>
              /\ buffer = SssNullBytes
              /\ rendered = RErr(UnsupportedTypeError)

\* the thirteen bytes have been given back to the decoder under the name
SssNullWitness ==
    /\ SssNullCalled
    /\ pc = "round_trip"
    /\ buffer = SssNullBytes
    /\ ~rendered.ok

-----------------------------------------------------------------------------
BoolName == <<"b", "o", "o", "l">>

\* call_result_to_data_type has returned a rendering
Rendered == pc \in {"converted", "round_trip"} /\ rendered.ok

\* the texts ts between brackets, a comma and a space before all but the first
Listed(ts) ==
    <<"[">> \o Concat([j \in 1..Len(ts) |-> IF j = 1 THEN ts[1] ELSE <<",", " ">> \o ts[j]])
            \o <<"]">>

\* the integer literal lit is the value the bytes b hold under the name n
IsLiteralOf(lit, b, n) ==
    /\ IsIntegerLiteral(lit)
    /\ lit # MinusZero
    /\ IF LiteralNeg(lit)
       THEN NameSigned(n) /\ b[Len(b)] >= 128 /\ IsTwosComplementOf(b, LiteralMag(lit))
       ELSE (NameSigned(n) => b[Len(b)] < 128) /\ LeValue(b) = LiteralMag(lit)

\* the size in bytes of an element under the name n of an integer type or bool
ElementSize(n) == IF n = BoolName THEN 1 ELSE NameWidth(n) \div 8

\* the bytes of element j of a buffer of elements of size sz behind a count
ElementBytes(b, j, sz) == SubSeq(b, 5 + (j - 1) * sz, 4 + j * sz)

\* the name inside Vec<..>
InnerNameOfVec(n) == SubSeq(n, 5, Len(n) - 1)

\* what the decoder renders the bytes b as under the name n, called on its own
RenderingOf(b, n) == call_result_to_data_type(b, n)

\* C15: call_result_to_data_type renders in debug style: an integer as the
\* literal of the value its bytes hold, a bool as true or false, a String
\* between double quotes, a Vec as [e1, e2, ...] of the renderings of its
\* elements in buffer order with a comma and a space between them, and
\* [u8;32] and [u8;64] as the bracketed list of the 32 and 64 byte values.
RendersInDebugStyle ==
    LET n == NoSpaces(type_name)
    IN  Rendered =>
        /\ n \in IntegerNames =>
              IsLiteralOf(rendered.out, SubSeq(buffer, 1, NameWidth(n) \div 8), n)
        /\ n = BoolName =>
              /\ buffer[1] \in {0, 1}
              /\ rendered.out = IF buffer[1] = 1 THEN <<"t", "r", "u", "e">>
                                ELSE <<"f", "a", "l", "s", "e">>
        /\ n = StringName =>
              /\ Len(rendered.out) >= 2
              /\ rendered.out[1] = "\""
              /\ rendered.out[Len(rendered.out)] = "\""
              /\ (\A j \in 5..(4 + buffer[1]) : buffer[j] \in 97..122) =>
                    rendered.out = <<"\"">> \o [j \in 1..buffer[1] |-> CharOf(buffer[4 + j])]
                                       \o <<"\"">>
        /\ n \in {VecName(m) : m \in IntegerNames \cup {BoolName}} =>
              /\ buffer[2] = 0 /\ buffer[3] = 0 /\ buffer[4] = 0
              /\ \A j \in 1..buffer[1] :
                    RenderingOf(ElementBytes(buffer, j, ElementSize(InnerNameOfVec(n))),
                                InnerNameOfVec(n)).ok
              /\ rendered.out =
                    Listed([j \in 1..buffer[1] |->
                              RenderingOf(ElementBytes(buffer, j, ElementSize(InnerNameOfVec(n))),
                                          InnerNameOfVec(n)).out])
        /\ n = VecName(StringName) =>
              \A x \in (IF pc = "round_trip" THEN SamplesCalled ELSE {}) :
                  rendered.out =
                     Listed([j \in 1..Len(SampleValue(x)) |->
                               RenderingOf(EncodingOf(StringT, SampleValue(x)[j]).out,
                                           StringName).out])
        /\ n = Bytes32Name => rendered.out = Listed([j \in 1..32 |-> NatText(buffer[j])])
        /\ n = Bytes64Name => rendered.out = Listed([j \in 1..64 |-> NatText(buffer[j])])
        /\ pc = "round_trip" /\ n = VecName(<<"i", "3", "2">>)
              /\ value_text = <<"[", "-", "2", ",", " ", "-", "3", ",", " ", "5", ",", " ", "6", "]">>
              => rendered.out = value_text

\* a Vec of two numbers has been rendered with a comma and a space between
RenderedVecWitness ==
    /\ pc = "converted"
    /\ type_name = VecName(U8Name)
    /\ buffer = <<2, 0, 0, 0, 1, 0, 9, 9>>
    /\ rendered = ROk(<<"[", "1", ",", " ", "0", "]">>)

-----------------------------------------------------------------------------
(* CallArguments::from_json against documents whose content is written out *)

\* what from_json is to give for each of the ElementTexts: the pair, or nothing
ElementPairs ==
  <<
    << <<
        <<"i", "8">>,
        <<"-", "1">>
    >> >>,
    << <<
        <<"V", "e", "c", "<", "O", "p", "i", "o", "n", "<", "i", "8", ">", ">">>,
        <<"[", "-", "1", ",", " ", "n", "u", "l", "l", ",", " ", "-", "5", "]">>
    >> >>,
    << <<
        <<"V", "e", "c", "<", "S", "t", "r", "i", "n", "g", ">">>,
        <<"[", "\"", "s", "t", "r", "i", "n", "g", " ", "d", "a", "t", "a", "\"", ",", " ",
          "\"", "a", "s", "d", "a", "f", "\"", "]">>
    >> >>,
    <<>>,
    <<>>,
    << <<
        <<"u", "8">>,
        <<"5">>
    >> >>,
    << <<
        <<"V", "e", "c", "<", "O", "p", "i", "o", "n", "<", "b", "o", "o", "l", ">", ">">>,
        <<"[", "t", "r", "u", "e", ",", "f", "a", "l", "s", "e", ",", "n", "u", "l", "]">>
    >> >>,
    <<>>,
    <<>>,
    <<>>,
    <<>>,
    <<>>,
    <<>>,
    <<>>,
    <<>>,
    <<>>,
    <<>>,
    << <<
        <<>>,
        <<>>
    >> >>,
    << <<
        <<"u", "8">>,
        <<"5">>
    >> >>,
    <<>>,
    << <<
        <<"u", "8">>,
        <<"-", "0", ".", "5">>
    >> >>
  >>

\* the pairs of the elements numbered by f, in their order
PairsOf(f) == Concat([j \in 1..Len(f) |-> ElementPairs[f[j]]])

\* the documents with an arguments array as <<text, pairs to be returned>>
DocumentCases ==
    { <<ArgumentsDocument([j \in 1..Len(f) |-> ElementTexts[f[j]]]), PairsOf(f)>>
      : f \in CoreSequences }
      \cup { <<ArgumentsDocument(<<ElementTexts[v]>>), ElementPairs[v]>>
             : v \in 1..Len(ElementTexts) }
      \cup { <<ArgumentsDocument(<<ElementTexts[1], ElementTexts[v], ElementTexts[3]>>),
               ElementPairs[1] \o ElementPairs[v] \o ElementPairs[3]>>
             : v \in 1..Len(ElementTexts) }
      \cup { <<TestDocument, TestArguments>> }

\* C16: from_json returns exactly the elements of the top-level arguments
\* array that have both argument_type and argument_value as strings, as
\* <<type, value>> pairs in document order; an element without one of the
\* fields, with a field that is no string, or that is no object is dropped
\* without error; types and values are not validated; the document of 42
\* entries gives 42 pairs.
FromJsonKeepsStringPairs ==
    pc = "parsed" =>
        /\ \A c \in DocumentCases : json_text = c[1] => call_arguments = ROk(c[2])
        /\ json_text = TestDocument => Len(call_arguments.out) = 42

\* of three elements the one whose argument_value is a number has been
\* dropped and the two around it kept in their order
DroppedElementWitness ==
    /\ pc = "parsed"
    /\ json_text = ArgumentsDocument(<<ElementTexts[1], ElementTexts[5], ElementTexts[3]>>)
    /\ call_arguments.ok
    /\ Len(call_arguments.out) = 2
    /\ call_arguments.out[1][1] = <<"i", "8">>
    /\ call_arguments.out[2][1] = VecName(StringName)

-----------------------------------------------------------------------------
InvalidJsonPrefix ==
    <<"P", "r", "o", "v", "i", "d", "e", "d", " ", "j", "s", "o", "n", " ", "i", "s", " ",
      "n", "o", "t", " ", "v", "a", "l", "i", "d", ".", " ">>

MissingArgumentsError ==
    <<"P", "r", "o", "v", "i", "d", "e", "d", " ", "j", "s", "o", "n", " ", "d", "o", "e",
      "s", " ", "n", "o", "t", " ", "c", "o", "n", "t", "a", "i", "n", " ", "f", "i", "e",
      "l", "d", " ", "w", "i", "t", "h", " ", "n", "a", "m", "e", " ", ":", " ", "a", "r",
      "g", "u", "m", "e", "n", "t", "s">>

\* C17: from_json fails with the invalid-JSON error on a text that is no
\* JSON, and with the missing-field error that names arguments on a JSON
\* document without a top-level arguments array (field absent, field no
\* array, top level no object); a failure returns no list.
FromJsonFailures ==
    pc = "parsed" =>
        /\ json_text \in SeqRange(InvalidJsonTexts) =>
              /\ ~call_arguments.ok
              /\ IsPrefix(InvalidJsonPrefix, call_arguments.err)
              /\ Len(call_arguments.err) > Len(InvalidJsonPrefix)
        /\ json_text \in SeqRange(NoArgumentsTexts) =>
              call_arguments = RErr(MissingArgumentsError)
        /\ ~call_arguments.ok =>
              /\ call_arguments.out = <<>>
              /\ \/ IsPrefix(InvalidJsonPrefix, call_arguments.err)
                 \/ call_arguments.err = MissingArgumentsError

\* a document whose arguments field is a number has been refused with the
\* missing-field error
MissingFieldWitness ==
    /\ pc = "parsed"
    /\ json_text = NoArgumentsTexts[4]
    /\ Index(DeserializeAny(json_text, 1).val, ArgumentsKey).k = "Number"
    /\ call_arguments = RErr(MissingArgumentsError)

-----------------------------------------------------------------------------
(* The bytes a type requires, counted on the buffer apart from the decoder *)

\* the number four length bytes hold, or 65536 for every number from there on
PrefixAt(b, i) ==
    IF b[i + 2] # 0 \/ b[i + 3] # 0 THEN 65536 ELSE b[i] + 256 * b[i + 1]

\* one of k strings that start at i is cut off by the end of the buffer
RECURSIVE StringsCutOff(_, _, _)
StringsCutOff(b, i, k) ==
    IF k = 0 THEN FALSE
    ELSE IF Len(b) - i + 1 < 4 THEN TRUE
    ELSE IF Len(b) - i - 3 < PrefixAt(b, i) THEN TRUE
    ELSE StringsCutOff(b, i + 4 + PrefixAt(b, i), k - 1)

\* the buffer b holds fewer bytes than a value of the decodable type named n
\* requires
HoldsTooFew(n, b) ==
    CASE n \in IntegerNames \cup {BoolName} -> Len(b) < ElementSize(n)
      [] n = StringName -> StringsCutOff(b, 1, 1)
      [] n = VecName(StringName) -> Len(b) < 4 \/ StringsCutOff(b, 5, PrefixAt(b, 1))
      [] n \in {VecName(m) : m \in IntegerNames \cup {BoolName}} ->
            Len(b) < 4 \/ Len(b) - 4 < PrefixAt(b, 1) * ElementSize(InnerNameOfVec(n))
      [] n = Bytes32Name -> Len(b) < 32
      [] n = Bytes64Name -> Len(b) < 64

ConvertErrorPrefix ==
    <<"F", "a", "i", "l", " ", "t", "o", " ", "c", "o", "n", "v", "e", "r", "t", " ", "t",
      "o", " ", "t", "a", "r", "g", "e", "t", " ", "d", "a", "t", "a", " ", "t", "y", "p",
      "e", ".", " ">>

\* call_result_to_data_type has returned for a name it has an arm for
DecodedCalled == pc = "converted" /\ NoSpaces(type_name) \in DecodableTypeNames

\* C18: decoding a buffer that holds fewer bytes than the type requires
\* fails with an error, and no value made of the bytes there are, or of
\* bytes filled in, is returned: 3 bytes under u32, a Vec count with fewer
\* elements behind it, a String length with fewer bytes behind it, 31 bytes
\* under [u8;32], the empty buffer.
TruncatedBufferFails ==
    DecodedCalled /\ HoldsTooFew(NoSpaces(type_name), buffer) =>
        /\ ~rendered.ok
        /\ rendered.out = <<>>
        /\ IsPrefix(ConvertErrorPrefix, rendered.err)

\* three bytes have been refused under u32
TruncatedWitness ==
    /\ DecodedCalled
    /\ type_name = <<"u", "3", "2">>
    /\ buffer = <<1, 2, 3>>
    /\ HoldsTooFew(type_name, buffer)
    /\ ~rendered.ok

-----------------------------------------------------------------------------
\* bytes that follow the value in a longer buffer
ExtraBytes == { <<0>>, <<1>>, <<255>>, <<9, 9>>, <<0, 0, 0, 0>>, <<1, 2, 3, 4, 5, 6, 7, 8, 9>> }

\* a buffer has been decoded with success
DecodedWithSuccess == pc \in {"converted", "round_trip"} /\ rendered.ok

\* C19: the decoder ignores the bytes after the value: when decoding the
\* buffer under the type succeeds, decoding the buffer followed by extra
\* bytes under the same type succeeds with the same rendering.
TrailingBytesIgnored ==
    DecodedWithSuccess =>
        \A extra \in ExtraBytes :
            call_result_to_data_type(buffer \o extra, type_name) = rendered

\* two elements have been decoded out of a buffer that holds two bytes more
TrailingBytesWitness ==
    /\ DecodedWithSuccess
    /\ NoSpaces(type_name) = VecName(U8Name)
    /\ buffer = <<2, 0, 0, 0, 1, 0, 9, 9>>
    /\ rendered = call_result_to_data_type(<<2, 0, 0, 0, 1, 0>>, type_name)

-----------------------------------------------------------------------------
(* The bytes a type admits, read on the buffer apart from the decoder *)

\* the byte at i of b continues a character
Continues(b, i) == i <= Len(b) /\ b[i] \in 128..191

\* the bytes of b from i on are well-formed UTF-8
RECURSIVE WellFormedFrom(_, _)
WellFormedFrom(b, i) ==
    IF i > Len(b) THEN TRUE
    ELSE IF b[i] < 128 THEN WellFormedFrom(b, i + 1)
    ELSE IF b[i] \in 194..223 THEN Continues(b, i + 1) /\ WellFormedFrom(b, i + 2)
    ELSE IF b[i] \in 224..239
    THEN /\ Continues(b, i + 1) /\ Continues(b, i + 2)
         /\ (b[i] = 224 => b[i + 1] >= 160)
         /\ (b[i] = 237 => b[i + 1] < 160)
         /\ WellFormedFrom(b, i + 3)
    ELSE IF b[i] \in 240..244
    THEN /\ Continues(b, i + 1) /\ Continues(b, i + 2) /\ Continues(b, i + 3)
         /\ (b[i] = 240 => b[i + 1] >= 144)
         /\ (b[i] = 244 => b[i + 1] < 144)
         /\ WellFormedFrom(b, i + 4)
    ELSE FALSE

\* one of k strings that start at i, none of them cut off, holds bytes that
\* are no UTF-8
RECURSIVE StringsIllFormed(_, _, _)
StringsIllFormed(b, i, k) ==
    IF k = 0 THEN FALSE
    ELSE \/ ~WellFormedFrom(SubSeq(b, i + 4, i + 3 + PrefixAt(b, i)), 1)
         \/ StringsIllFormed(b, i + 4 + PrefixAt(b, i), k - 1)

\* the buffer b, long enough for the type named n, holds a bool byte other
\* than 0 and 1 or string bytes that are no UTF-8
HoldsInadmissible(n, b) ==
    CASE n = BoolName -> b[1] \notin {0, 1}
      [] n = VecName(BoolName) -> \E j \in 1..PrefixAt(b, 1) : b[4 + j] \notin {0, 1}
      [] n = StringName -> StringsIllFormed(b, 1, 1)
      [] n = VecName(StringName) -> StringsIllFormed(b, 5, PrefixAt(b, 1))
      [] OTHER -> FALSE

\* C20 as stated: the decoder fails only for a truncated buffer or an
\* unsupported type: under every name it has an arm for, a buffer that holds
\* as many bytes as the type requires is decoded with success.
DecoderFailsOnlyWhenTruncated ==
    DecodedCalled /\ ~HoldsTooFew(NoSpaces(type_name), buffer) => rendered.ok

\* C20 as amended: under every name the decoder has an arm for, a buffer is
\* decoded with success exactly when it holds as many bytes as the type
\* requires, no bool byte other than 0 and 1 and no string bytes that are
\* no UTF-8.
DecoderFailureCauses ==
    DecodedCalled =>
        (rendered.ok <=>
            /\ ~HoldsTooFew(NoSpaces(type_name), buffer)
            /\ ~HoldsInadmissible(NoSpaces(type_name), buffer))

\* the byte 2 has been refused under bool, and the bytes 255, 254 under String
InadmissibleWitness ==
    /\ DecodedCalled
    /\ \/ NoSpaces(type_name) = BoolName /\ buffer = <<2>>
       \/ NoSpaces(type_name) = StringName /\ buffer = <<2, 0, 0, 0, 255, 254>>
    /\ ~HoldsTooFew(NoSpaces(type_name), buffer)
    /\ HoldsInadmissible(NoSpaces(type_name), buffer)
    /\ ~rendered.ok

-----------------------------------------------------------------------------
\* C21: call_result_to_data_type accepts exactly the names that read, spaces
\* apart, as one of the 12 primitives, Vec<P> of one of them, [u8;32] or
\* [u8;64]; every other name, Option<P>, Vec<Vec<P>>, Vec<Option<P>> and
\* Option<Vec<P>> among them, gets the error of an unsupported type
\* whatever the buffer holds.
DecoderAcceptsExactlyDocumentedNames ==
    pc = "converted" =>
        /\ NoSpaces(type_name) \in DecodableTypeNames <=> rendered # RErr(UnsupportedTypeError)
        /\ NoSpaces(type_name) \notin DecodableTypeNames =>
              \A b \in {<<>>, <<0>>, <<1, 1>>, buffer \o <<7>>} :
                  call_result_to_data_type(b, type_name) = rendered

\* the encoding of None has been refused under Option<u8>
DecoderUnsupportedWitness ==
    /\ pc = "converted"
    /\ type_name = OptionName(U8Name)
    /\ type_name \in SupportedTypeNames \ DecodableTypeNames
    /\ buffer = <<0>>
    /\ rendered = RErr(UnsupportedTypeError)

-----------------------------------------------------------------------------
\* serialize_call_arguments has failed on the value, under a name of its table
ValueErrorReturned == pc = "serialized" /\ ~encoded.ok /\ ~FellThrough

\* the text is one JSON value
IsJsonText(s) == End(s, DeserializeAny(s, 1)).ok

\* the kind of a failing value: text that is not JSON, a literal outside the
\* range of the integer type, or JSON that the type does not take
InputKind(n, v) ==
    IF ~IsJsonText(v) THEN "invalid JSON"
    ELSE IF NoSpaces(n) \in IntegerNames /\ IsIntegerLiteral(v) /\ ~WithinRange(NoSpaces(n), v)
    THEN "numeric overflow"
    ELSE "type mismatch"

TrueText == <<"t", "r", "u", "e">>

FiveText == <<"5">>

OpenArrayText == <<"[", "1", ",", "2">>

ClosedArrayText == <<"[", "1", ",", "2", ",", "3", "]">>

\* 2^64
BeyondU64Text ==
    <<"1", "8", "4", "4", "6", "7", "4", "4", "0", "7", "3", "7", "0", "9", "5", "5", "1",
      "6", "1", "6">>

ReferenceTexts == {TrueText, FiveText, OpenArrayText, ClosedArrayText, BeyondU64Text}

\* the error is FailToSerializeCallArgument with the message e of serde_json
MessageIs(e) == encoded.err = FailToSerializeCallArgument(SerdeErrorText(e))

\* the literal fits the 64 bits in which serde_json reads an integer
Fits64(s) ==
    IF LiteralNeg(s)
    THEN MagCmp(LiteralMag(s), MagMulAdd(Pow256(7), 128, 0)) <= 0
    ELSE MagCmp(LiteralMag(s), Pow256(8)) < 0

\* the type name has a 128-bit integer at its top, under Option or not
Top128(n) == n \in {m \in IntegerNames : NameWidth(m) = 128}
                    \cup {OptionName(m) : m \in {h \in IntegerNames : NameWidth(h) = 128}}

-----------------------------------------------------------------------------
\* C26: serialize_call_arguments resolves the type name before it looks at
\* the value: under a name outside the supported names the result is the
\* error of an unsupported type whatever the value text is, and the error
\* FailToSerializeCallArgument is returned under supported names only.
TypeResolvedBeforeValue ==
    pc = "serialized" =>
        /\ NoSpaces(type_name) \notin SupportedTypeNames
              => encoded = RErr(UnsupportedTypeError)
        /\ (~encoded.ok /\ IsPrefix(SerializeErrorPrefix, encoded.err))
              => NoSpaces(type_name) \in SupportedTypeNames

-----------------------------------------------------------------------------
\* the argument_value of the String entry of the test document
StringDataText == <<"s", "t", "r", "i", "n", "g", " ", "d", "a", "t", "a">>

\* the text, the whitespace at its ends apart, stands in double quotes
InQuotes(s) == Len(Trim(s)) >= 2 /\ Trim(s)[1] = "\"" /\ Trim(s)[Len(Trim(s))] = "\""

\* C29: under String the value text has to be a JSON string literal in
\* double quotes: text without them, such as the words string data, fails
\* with FailToSerializeCallArgument and is not encoded as it stands, though
\* from_json accepts the entry that holds it and returns it.
UnquotedStringRefused ==
    /\ StringCalled =>
          /\ encoded.ok => InQuotes(value_text)
          /\ ~InQuotes(value_text) => IsPrefix(SerializeErrorPrefix, encoded.err)
          /\ value_text = StringDataText =>
                encoded = RErr(FailToSerializeCallArgument(SerdeErrorText("expected value")))
    /\ (pc = "parsed" /\ json_text = TestDocument) =>
          /\ call_arguments.ok
          /\ \E j \in 1..Len(call_arguments.out) :
                /\ call_arguments.out[j] = <<StringName, StringDataText>>
                /\ ~serialize_call_arguments(call_arguments.out[j][2],
                                             call_arguments.out[j][1]).ok

\* the words string data without quotes have been refused under String
UnquotedStringWitness ==
    /\ StringCalled
    /\ value_text = StringDataText
    /\ ~encoded.ok
    /\ IsPrefix(SerializeErrorPrefix, encoded.err)

-----------------------------------------------------------------------------
(* Base64URL, read on the text apart from the decoder of the model *)

Base64UrlCharacters ==
    SeqRange(UpperLetters) \cup SeqRange(LowerLetters)
      \cup {"0", "1", "2", "3", "4", "5", "6", "7", "8", "9", "-", "_"}

\* the symbols whose low four bits, and whose low two bits, are zero
LastOfTwo == {"A", "Q", "g", "w"}

LastOfThree ==
    {"A", "E", "I", "M", "Q", "U", "Y", "c", "g", "k", "o", "s", "w", "0", "4", "8"}

\* valid Base64URL without padding
IsBase64Url(s) ==
    /\ \A j \in 1..Len(s) : s[j] \in Base64UrlCharacters
    /\ Len(s) % 4 # 1
    /\ Len(s) % 4 = 2 => s[Len(s)] \in LastOfTwo
    /\ Len(s) % 4 = 3 => s[Len(s)] \in LastOfThree

\* the number of bytes that valid Base64URL stands for
DecodedLength(s) == (Len(s) * 3) \div 4

HasPadding(s) == s # <<>> /\ s[Len(s)] = "="

InvalidEncodingError ==
    <<"P", "r", "o", "v", "i", "d", "e", "d", " ", "s", "t", "r", "i", "n", "g", " ", "h",
      "a", "s", " ", "i", "n", "v", "a", "l", "i", "d", " ", "b", "a", "s", "e", "6", "4",
      " ", "e", "n", "c", "o", "d", "i", "n", "g">>

IncorrectLengthError ==
    <<"I", "n", "c", "o", "r", "r", "e", "c", "t", " ", "l", "e", "n", "g", "t", "h", ".",
      " ", "C", "o", "r", "r", "e", "c", "t", " ", "l", "e", "n", "g", "t", "h", " ", "s",
      "h", "o", "u", "l", "d", " ", "b", "e", " ", "3", "2", " ", "b", "y", "t", "e", "s",
      " ", "l", "o", "n", "g", ".">>

\* texts of 32 bytes with the bytes they stand for
Bytes32Vectors ==
  <<
    <<
      <<"A", "A", "E", "C", "A", "w", "Q", "F", "B", "g", "c", "I", "C", "Q", "o", "L",
        "D", "A", "0", "O", "D", "x", "A", "R", "E", "h", "M", "U", "F", "R", "Y", "X",
        "G", "B", "k", "a", "G", "x", "w", "d", "H", "h", "8">>,
      <<0, 1, 2, 3, 4, 5, 6, 7, 8, 9, 10, 11, 12, 13, 14, 15, 16, 17, 18, 19, 20, 21, 22,
        23, 24, 25, 26, 27, 28, 29, 30, 31>>
    >>,
    <<
      <<"A", "A", "A", "A", "A", "A", "A", "A", "A", "A", "A", "A", "A", "A", "A", "A",
        "A", "A", "A", "A", "A", "A", "A", "A", "A", "A", "A", "A", "A", "A", "A", "A",
        "A", "A", "A", "A", "A", "A", "A", "A", "A", "A", "A">>,
      <<0, 0, 0, 0, 0, 0, 0, 0, 0, 0, 0, 0, 0, 0, 0, 0, 0, 0, 0, 0, 0, 0, 0, 0, 0, 0, 0, 0,
        0, 0, 0, 0>>
    >>,
    <<
      <<"_", "_", "_", "_", "_", "_", "_", "_", "_", "_", "_", "_", "_", "_", "_", "_",
        "_", "_", "_", "_", "_", "_", "_", "_", "_", "_", "_", "_", "_", "_", "_", "_",
        "_", "_", "_", "_", "_", "_", "_", "_", "_", "_", "8">>,
      <<255, 255, 255, 255, 255, 255, 255, 255, 255, 255, 255, 255, 255, 255, 255, 255,
        255, 255, 255, 255, 255, 255, 255, 255, 255, 255, 255, 255, 255, 255, 255, 255>>
    >>,
    <<
      <<"-", "_", "8", "-", "P", "j", "4", "-", "P", "j", "4", "-", "P", "j", "4", "-",
        "P", "j", "4", "-", "P", "j", "4", "-", "P", "j", "4", "-", "P", "j", "4", "-",
        "P", "j", "4", "-", "P", "j", "4", "-", "P", "j", "4">>,
      <<251, 255, 62, 62, 62, 62, 62, 62, 62, 62, 62, 62, 62, 62, 62, 62, 62, 62, 62, 62,
        62, 62, 62, 62, 62, 62, 62, 62, 62, 62, 62, 62>>
    >>
  >>

\* C30: base64url_to_bytes32 returns Ok with the decoded bytes exactly when
\* the text is valid Base64URL of 32 bytes; valid Base64URL of another
\* length gets the error of the length, text that is no Base64URL the error
\* of the encoding, whatever its length. A text with padding is either
\* refused as no Base64URL or read as the text before the padding.
Base64UrlToBytes32Result ==
    pc = "decoded32" =>
        /\ ~HasPadding(value_text) =>
              /\ encoded.ok <=> (IsBase64Url(value_text) /\ DecodedLength(value_text) = 32)
              /\ (IsBase64Url(value_text) /\ DecodedLength(value_text) # 32)
                    => encoded = RErr(IncorrectLengthError)
              /\ ~IsBase64Url(value_text) => encoded = RErr(InvalidEncodingError)
              /\ \A j \in 1..Len(Bytes32Vectors) :
                    value_text = Bytes32Vectors[j][1] => encoded = ROk(Bytes32Vectors[j][2])
        /\ HasPadding(value_text) =>
              \/ encoded = RErr(InvalidEncodingError)
              \/ /\ IsBase64Url(WithoutPadding(value_text))
                 /\ encoded.ok <=> DecodedLength(WithoutPadding(value_text)) = 32
                 /\ ~encoded.ok => encoded = RErr(IncorrectLengthError)

\* a text of two characters outside the alphabet has been refused for its
\* encoding, not for its length
EncodingBeforeLengthWitness ==
    /\ pc = "decoded32"
    /\ value_text = <<"!", "!">>
    /\ encoded = RErr(InvalidEncodingError)

-----------------------------------------------------------------------------
\* C25: HttpError::new returns a message for every text and never aborts:
\* the codes 0x44C, 0x44E, 0x57D and 0x57E get their fixed messages, and
\* every other text, a number within i16 that is none of the four among
\* them, gets a returned message.
HttpErrorNewAlwaysReturns ==
    pc = "http_error" =>
        /\ rendered.returned
        /\ rendered.message # <<>>
        /\ value_text = <<"1", "1", "0", "0">> => rendered = response(INPUT_DECODE_FAILURE)
        /\ value_text = <<"1", "1", "0", "2">>
              => rendered = response(INCORRECT_URL_AND_QUERY_PARAMS)
        /\ value_text = <<"1", "4", "0", "5">> => rendered = response(VIEW_SERVICE_CHANNEL_ERROR)
        /\ value_text = <<"1", "4", "0", "6">>
              => rendered = response(VIEW_SERVICE_REQUEST_TIMEOUT)

-----------------------------------------------------------------------------
\* the function of a call applied to its arguments, by itself
Applied(call) ==
    CASE call.fn = "serialize_call_arguments" ->
            serialize_call_arguments(call.args[1], call.args[2])
      [] call.fn = "call_result_to_data_type" ->
            call_result_to_data_type(call.args[1], call.args[2])
      [] call.fn = "from_json" -> from_json(call.args[1])

\* C23: the codec is deterministic and stateless: whatever calls a caller
\* made before and whatever call the other caller has entered meanwhile, a
\* call of from_json, serialize_call_arguments or call_result_to_data_type
\* returns what its function gives for its arguments alone.
CodecCallsAreStateless ==
    \A c \in Callers :
        frames[c].at = "returned" => frames[c].result = Applied(frames[c].call)

\* caller 1 has returned from serialize_call_arguments under bool while
\* caller 2 is inside call_result_to_data_type under another name
InterleavedCallsWitness ==
    /\ pc = "callers"
    /\ frames[1].at = "returned"
    /\ frames[1].call = SerializeCall(<<"t", "r", "u", "e">>, <<"b", "o", "o", "l">>)
    /\ frames[1].result = ROk(<<1>>)
    /\ frames[2].at = "entered"
    /\ frames[2].call.fn = "call_result_to_data_type"
    /\ dt_no_space_of[Local(2)] = <<"V", "e", "c", "<", "u", "8", ">">>

\* the transport sent the request and the whole response was read
Completed(exchange) == exchange.sent /\ exchange.error = <<>>

\* C28: post_response and get_response return Ok with the bytes of the body
\* exactly when the request completed with status 200; a request that completed
\* with any other status, 201 and 204 included, returns Err with the text of the
\* body; a failure of the transport returns Err with the text of its error; and
\* is_provider_up makes one GET to the provider followed by "/" and is true
\* exactly when that request completed with status 200.
OkExactlyOnStatus200 ==
    /\ outcome.call \in {"post_response", "get_response"} =>
          /\ Len(requests) = 1
          /\ outcome.result.ok <=>
                Completed(requests[1].exchange) /\ requests[1].exchange.status = 200
          /\ outcome.result.ok => outcome.result = ROk(requests[1].exchange.body)
          /\ Completed(requests[1].exchange) /\ requests[1].exchange.status # 200 =>
                outcome.result = RErr(TextOf(requests[1].exchange.body))
          /\ ~Completed(requests[1].exchange) =>
                outcome.result = RErr(requests[1].exchange.error)
    /\ outcome.call = "is_provider_up" =>
          /\ Len(requests) = 1
          /\ requests[1].verb = "GET"
          /\ requests[1].url = client.provider \o <<"/">>
          /\ outcome.result <=>
                Completed(requests[1].exchange) /\ requests[1].exchange.status = 200

\* post_response got a 201 with a body and returned Err with the text of it
Other2xxIsErrWitness ==
    /\ outcome.call = "post_response"
    /\ Completed(requests[1].exchange)
    /\ requests[1].exchange.status = 201
    /\ ~outcome.result.ok
    /\ outcome.result.err = TextOf(requests[1].exchange.body)
    /\ outcome.result.err # <<>>

\* the endpoint path of the last call
PathOf(call) ==
    IF call.call \in {"post_response", "get_response"} THEN call.arg
    ELSE IF call.call = "is_provider_up" THEN <<>>
    ELSE (CHOOSE m \in Methods : m.type = client.type /\ m.name = call.call).path

\* C27: the provider of a client is the URL of its constructor until a
\* set_provider, and from then on the URL of the most recent set_provider:
\* set_provider sets the provider to its argument and changes nothing else, no
\* other call changes the client, get_provider returns the provider, and every
\* request goes to the provider followed by "/" and the endpoint path.
ProviderIsLastSetProvider ==
    /\ [](outcome.call = "new" => client.provider = outcome.arg)
    /\ [](outcome.call = "get_provider" => outcome.result = client.provider)
    /\ [](\A i \in 1..Len(requests) :
             requests[i].url = client.provider \o <<"/">> \o PathOf(outcome))
    /\ [][ /\ outcome'.call = "set_provider" =>
                 /\ client' = [client EXCEPT !.provider = outcome'.arg]
                 /\ requests' = <<>>
           /\ outcome'.call # "set_provider" => client' = client
           /\ UNCHANGED <<codec, callers>> ]_vars

\* an RPC method called after a set_provider to a URL the constructor never
\* got: its request went to that URL, "/" and the path of the method
RequestAfterSetProviderWitness ==
    /\ client.provider = MovedUrl
    /\ outcome.call = "validator_sets"
    /\ Len(requests) = 1
    /\ requests[1].url = MovedUrl \o <<"/">> \o PathOf(outcome)
    /\ PathOf(outcome) # <<>>

\* the RPC methods of the type of the client with the name of the last call
MethodsCalled == {m \in Methods : m.type = client.type /\ m.name = outcome.call}

====
